---- MODULE Spec2Model ----
(***************************************************************************)
(* Verification model of the zendesk-summarizer ingestion pipeline.        *)
(*                                                                         *)
(*   Spec          one invocation of autoImportTickets                     *)
(*                 (backend/src/controllers/navbar.js, the batched handler *)
(*                 and the earlier p-queue handler kept in the same file)  *)
(*   SpecRegistry  concurrent callers of fetchFormFields                   *)
(*                 (backend/src/config/zendesk.js)                         *)
(*   SpecEmbed     embedText with its retry loop and cache                 *)
(*                 (services/embedding.js, OpenAI variant)                 *)
(*   SpecBatch     one embedTextBatch or embedTextBatchParallel call       *)
(*   SpecTicket    one ticket through enrichTicketWithComments             *)
(*                 (zendesk.js) and chunkTicketData (services/chunking.js) *)
(*   SpecFields    one mapTicketCustomFields call (zendesk.js)             *)
(*   SpecVectors   the vector identifiers of one import run (navbar.js)    *)
(*   SpecUpsert    one upsertVectors call (config/pinecone.js)             *)
(*   SpecStartup   process start (server.js, pinecone.js, zendesk.js) and  *)
(*                 the ingestion requests served after it                  *)
(*   SpecPages     one fetchTicketsByDateRange call (zendesk.js)           *)
(*   SpecAudit     one createZendeskImportRecord or                        *)
(*                 createZendeskErrorImportRecord call (zendesk.js)        *)
(*   SpecEnrich    the enrichment, chunking and embedding stages of one    *)
(*                 import run, enrichments in flight (navbar.js)           *)
(*   SpecSchema    one or two runs of createCustomObjectType or            *)
(*                 createErrorCustomObjectType (zendesk.js)                *)
(***************************************************************************)
EXTENDS Integers, Sequences, FiniteSets, TLC

(***************************************************************************)
(* Bounds of the model.                                                    *)
(***************************************************************************)
MaxTickets == 2
MaxEmbedFailures == 1

MaxPages == 3

\* Tickets of one enrichment run; more than one batch of 10.
MaxEnrichTickets == 12

\* Runs of the schema setup of one object type.
MaxSetupRuns == 2

\* Enrichments or embeddings of one run that may fail.
MaxFailedEnrichments == 1

(***************************************************************************)
(* Program constants.                                                      *)
(***************************************************************************)
UpsertBatchSize == 100

DIMENSION == 768
MaxReadyAttempts == 30
\* dimension of text-embedding-3-small vectors
EmbeddingDimension == 1536

\* the custom object types of the audit log
ObjectKeys == {"kb_import_log_v3", "kb_import_errors"}

VARIABLES
    \* ---- one autoImportTickets invocation ----
    variant,          \* "batched" | "queue": which handler of navbar.js runs
    mode,             \* req.body.mode: "standard" | "quick"
    dates,            \* req.body.startDate/endDate: "missing" | "invalid" | "valid"
    credentials,      \* ZENDESK_EMAIL / ZENDESK_API_TOKEN / ZENDESK_DOMAIN are set
    pc,               \* position of the handler
    tickets,          \* result of fetchTicketsByDateRange (ticket id = position)
    enrichIdx,        \* tickets handled by the enrichment loop so far
    enrichedTickets,  \* enrichedTickets[]
    allChunks,        \* allChunks[]: <<[ticketId, chunkIndex, type]>>
    embedIdx,         \* texts handled by the embedding loop so far
    embedFailures,    \* embedText calls of this run that failed
    vectors,          \* vectors[] prepared for the vector store
    upIdx,            \* vectors handed to index.upsert so far
    written,          \* vectors the vector store has accepted
    commentFetches,   \* GET /tickets/{id}/comments.json requests issued
    embedCalls,       \* embedText calls issued
    auditLog,         \* audit writes issued: <<[kind, ticketCount, phase, posted, patched]>>
    customRecord,     \* customRecord?.id || null   (0 is null)
    errorRecord,      \* errorRecord?.id || null    (0 is null)
    thrownAt,         \* phase whose exception reached the handler's catch, or "none"
    response,         \* the response sent to the caller
    nResponses        \* number of responses sent

runVars == <<variant, mode, dates, credentials, pc, tickets, enrichIdx,
             enrichedTickets, allChunks, embedIdx, embedFailures, vectors, upIdx,
             written, commentFetches, embedCalls, auditLog, customRecord,
             errorRecord, thrownAt, response, nResponses>>

VARIABLES
    \* ---- fetchFormFields and its callers ----
    zendeskCreds,     \* Zendesk credentials are set (createZendeskClient succeeds)
    formFieldsCache,  \* let formFieldsCache = null  ([loaded |-> FALSE] is null)
    cpc,              \* caller -> "idle" | "get" | "sleep" | "returned" | "threw"
    fieldsMap,        \* caller -> the local fieldsMap of its load (set of field ids)
    page,             \* caller -> page of /ticket_fields.json it is fetching
    io,               \* caller -> GET requests its call has issued
    ret               \* caller -> the map its call returned

regVars == <<zendeskCreds, formFieldsCache, cpc, fieldsMap, page, io, ret>>

VARIABLES
    \* ---- embedText ----
    apiKey,           \* OPENAI_API_KEY is set
    embeddingCache,   \* text -> cached vector (0: no entry)
    ecalls,           \* embedText calls started
    epc,              \* "idle" | "attempt" | "returned" | "failed"
    earg,             \* text argument of the current call
    etext,            \* processText of the current call
    attempt,          \* loop variable of the retry loop
    requests,         \* axios.post requests the current call has sent
    lastStatus,       \* outcome of the last request
    lastHeader,       \* retry-after header of the last 429
    lastAttempt,      \* value of attempt when the last request failed
    lastSleep,        \* ms slept after the last failed request (0: none)
    lastPause,        \* ms paused before the last request (delayBetweenRequests)
    errKind,          \* "none" | "config" | "fatal" | "exhausted"
    evector,          \* vector the current call returned (0: none)
    clears,           \* clearEmbeddingCache calls so far
    returns           \* the calls that returned: <<[text, vector, epoch]>>

embVars == <<apiKey, embeddingCache, ecalls, epc, earg, etext, attempt,
             requests, lastStatus, lastHeader, lastAttempt, lastSleep, lastPause,
             errKind, evector, clears, returns>>

VARIABLES
    \* ---- embedTextBatch / embedTextBatchParallel ----
    bvariant,         \* "sequential" (embedTextBatch) | "parallel"
    btexts,           \* the texts argument
    bpc,              \* "idle" | "loop" | "returned" | "failed"
    bi,               \* sequential: texts done; parallel: texts of finished chunks
    embeddings,       \* sequential: the embeddings array
    results,          \* parallel: the results array (0: undefined)
    pending,          \* parallel: indices whose embedText call is in flight
    bcalls,           \* embedText calls started by the batch
    produced,         \* index -> vector its embedText call returned (0: none)
    bfailedAt,        \* index whose embedText call failed the batch (0: none)
    bret,             \* the array the batch returned
    hpc,              \* the calling handler: "embedding" | "upserted"
                      \* | "embedThrew" | "upsertThrew"
    bupserted         \* the vectors the handler wrote: [chunk, values]

batVars == <<bvariant, btexts, bpc, bi, embeddings, results, pending, bcalls,
             produced, bfailedAt, bret, hpc, bupserted>>

VARIABLES
    \* ---- one ticket through enrichTicketWithComments and chunkTicketData ----
    traw,             \* the ticket as the search endpoint returned it
    tpc,              \* "fetched" | "enriched" | "enrichThrew" | "chunked" | "chunkThrew"
    tenriched,        \* <<the enriched ticket>> once enriched
    tchunks,          \* the chunks chunkTicketData returned
    \* ---- one mapTicketCustomFields call ----
    mfields,          \* ticket.custom_fields
    mfieldsMap,       \* the fieldsMap argument
    mpc,              \* "idle" | "mapped"
    mapped            \* the mappedFields it returned

tktVars == <<traw, tpc, tenriched, tchunks, mfields, mfieldsMap, mpc, mapped>>

VARIABLES
    \* ---- the vectors one import run prepares ----
    vsource,          \* "auto" (autoImportTickets) | "file" (importFile)
    vtickets,         \* the tickets the run chunks, in order
    vpc,              \* "start" | "chunked" | "prepared"
    vallChunks,       \* allChunks: [ticketId, chunkIndex, type]
    vtimestamp,       \* const timestamp = Date.now() (0: not taken)
    vvectors          \* the ids of the vectors handed to upsertVectors

vecVars == <<vsource, vtickets, vpc, vallChunks, vtimestamp, vvectors>>

VARIABLES
    \* ---- one upsertVectors call ----
    un,               \* vectors.length; the vectors are numbered 1..un
    upc,              \* "idle" | "start" | "loop" | "returned" | "threw"
    ui,               \* the loop variable i
    ucommitted,       \* the batches index.upsert accepted: [lo, hi]
    ufailed           \* number of the batch whose upsert failed (0: none)

upsVars == <<un, upc, ui, ucommitted, ufailed>>

VARIABLES
    \* ---- process start: module load, startServer, then requests ----
    pineconeKey,      \* process.env.PINECONE_API_KEY is set
    openaiKey,        \* process.env.OPENAI_API_KEY is set
    zendeskEnv,       \* ZENDESK_EMAIL, ZENDESK_API_TOKEN, ZENDESK_DOMAIN are set
    indexDimension,   \* dimension of the index zendesk-kb (0: no such index)
    created,          \* the createIndex calls made: [dimension, metric]
    spc,              \* "idle" | "load" | "index" | "waitReady" | "schema"
                      \* | "listening" | "exited"
    attempts,         \* the wait loop's attempts
    verified,         \* the dimension was read and found equal to DIMENSION
    zObjects,         \* custom object types that exist in Zendesk
    zFields,          \* custom object type -> keys of the fields it has
    served,           \* ingestion requests answered since listen
    lastResponse      \* [endpoint, code] of the last one

stVars == <<pineconeKey, openaiKey, zendeskEnv, indexDimension, created, spc,
            attempts, verified, zObjects, zFields, served, lastResponse>>

VARIABLES
    \* ---- one fetchTicketsByDateRange call ----
    fcreds,           \* the Zendesk credentials are configured
    fpages,           \* the result pages of the search, as ticket ids
    fpc,              \* "idle" | "start" | "loop" | "returned" | "threw"
    fnextUrl,         \* page nextUrl points at (0: null)
    fpage,            \* the page counter
    fallTickets,      \* allTickets
    frequests,        \* page -> GET requests issued for it
    flastAnswer,      \* answer to the last GET
    ffailedPage       \* page whose GET failed (0: none)

pgVars == <<fcreds, fpages, fpc, fnextUrl, fpage, fallTickets, frequests,
            flastAnswer, ffailedPage>>

VARIABLES
    \* ---- one createZendeskImportRecord / createZendeskErrorImportRecord call ----
    akind,            \* "success" | "failure": which recorder
    acreds,           \* the Zendesk credentials are configured
    adata,            \* importData / errorData after the defaults
    apc,              \* "idle" | "start" | "posted" | "returned"
    arequests,        \* the requests issued: [method, object, target, body]
    arecordId,        \* recordId: the id the POST answered with (0: none)
    aplatform,        \* the record Zendesk holds: <<[id, name, fields]>> or <<>>
    aresult           \* id of the record returned (0: null)

audVars == <<akind, acreds, adata, apc, arequests, arecordId, aplatform,
            aresult>>

VARIABLES
    \* ---- the enrichment, chunking and embedding stages of one run ----
    qvariant,         \* "batched" | "queue": which autoImportTickets
    qn,               \* tickets.length; the tickets are numbered 1..qn
    qstatus,          \* ticket -> "waiting" | "inflight" | "ok" | "failed"
    qpc,              \* "idle" | "enrich" | "pause" | "chunk" | "embed"
                      \* | "done" | "threw"
    qi,               \* batched handler: the loop variable i
    qpauses,          \* inter-batch pauses that have elapsed
    qenriched,        \* enrichedTickets, as ticket numbers
    qoutOfOrder,      \* an enrichment settled while an earlier one was in flight
    qallChunks,       \* allChunks: [ticketId, chunkIndex]
    qembeddings,      \* batched handler: the array embedTextBatch returned
    qvectors          \* vectors: [chunk, values]

enrVars == <<qvariant, qn, qstatus, qpc, qi, qpauses, qenriched, qoutOfOrder,
             qallChunks, qembeddings, qvectors>>

VARIABLES
    \* ---- runs of createCustomObjectType / createErrorCustomObjectType ----
    ckey,             \* the object type the function sets up
    cexists,          \* the type exists in Zendesk
    cfields,          \* keys of the fields it has
    cruns,            \* runs of the setup so far
    clast             \* the last run: [get, posted, fieldPosts, absorbed, ret,
                      \*                existed, before]

schVars == <<ckey, cexists, cfields, cruns, clast>>

extVars == <<enrVars, schVars>>

auxVars == <<vecVars, upsVars, stVars, pgVars, audVars, extVars>>

vars == <<runVars, regVars, embVars, batVars, tktVars, auxVars>>

(***************************************************************************)
(* Texts.  A text is a sequence of pieces (strings) standing for their     *)
(* concatenation.  LongText stands for a string of MAX_CHARS characters    *)
(* that is not blank; every other string stands for itself.                *)
(***************************************************************************)
\* const MAX_CHARS = 7000;
MAX_CHARS == 7000

\* '... [truncated]'
TruncationMarker == "... [truncated]"

LongText == "L"

\* s.length
StrLen(s) == IF s = LongText THEN MAX_CHARS ELSE Len(s)

\* s.trim(), on the strings of the model
Trim(s) == IF s = " " THEN "" ELSE s

\* the length of the string a text stands for
RECURSIVE TextLen(_)
TextLen(text) ==
    IF text = <<>> THEN 0 ELSE StrLen(Head(text)) + TextLen(Tail(text))

\* lines.join(sep)
RECURSIVE Join(_, _)
Join(lines, sep) ==
    IF lines = <<>> THEN <<>>
    ELSE IF Len(lines) = 1 THEN Head(lines)
    ELSE Head(lines) \o <<sep>> \o Join(Tail(lines), sep)

\* JavaScript null
null == "<null>"

(***************************************************************************)
(* Tickets as the search endpoint returns them, with what                  *)
(* GET /tickets/{id}/comments.json answers for them.                       *)
(*   fetch "ok"        the comments are returned                           *)
(*   fetch "error"     the request fails (fetchTicketComments returns [])  *)
(*   fetch "malformed" a payload on which enrichTicketWithComments raises  *)
(*                     (comments is not an array, an entry is null)        *)
(* body is comment.plain_body || comment.body || ''.                       *)
(* tagsOk: tags is an array (chunkTicketData calls tags.join); the tickets *)
(* of the model have subject "s", no description, status "open", priority  *)
(* "normal" and no tags.                                                   *)
(***************************************************************************)
NumUsers == 2
MaxComments == 2
NumFieldIds == 2
MaxCustomFields == 2

Messages == {"", " ", "a", "b", LongText}

Comments == [author_id : 1..NumUsers, body : Messages, public : BOOLEAN]

CommentLists == UNION { [1..n -> Comments] : n \in 0..MaxComments }

\* field ids: 1..NumFieldIds can be in the registry, NumFieldIds + 1 never is
FieldIds == 1..(NumFieldIds + 1)

\* the entries of ticket.custom_fields
FieldValues == [id : FieldIds, value : {null, "", "x"}]

\* ticket.custom_fields: at most one entry per field id
FieldLists(n) ==
    {fl \in UNION { [1..k -> FieldValues] : k \in 0..n } :
        \A i, j \in 1..Len(fl) : fl[i].id = fl[j].id => i = j}

Title(id) == "T" \o ToString(id)

\* `Field_${fieldId}`
SyntheticName(id) == "Field_" \o ToString(id)

\* the descriptors fetchFormFields stores
Descriptors ==
    [title : {Title(id) : id \in 1..NumFieldIds} \cup {SyntheticName(NumFieldIds + 1)},
     type : {"text", "date"}, key : {"k"}, description : {""}]

\* fieldsMap: field id -> descriptor, for the ids the load has seen
FieldsMaps ==
    UNION { [ids -> Descriptors] : ids \in SUBSET (1..NumFieldIds) }

\* the fieldsMap of a run whose load fetched every page
RunFieldsMap ==
    [id \in 1..NumFieldIds |->
        [title |-> Title(id), type |-> "text", key |-> "k", description |-> ""]]

RawTicket(requester, fetch, comments, fields, tagsOk) ==
    [requester_id |-> requester, fetch |-> fetch, comments |-> comments,
     custom_fields |-> fields, tagsOk |-> tagsOk,
     subject |-> "s", description |-> "", status |-> "open",
     priority |-> "normal"]

RawTickets ==
    {RawTicket(r, "ok", cs, fl, tg) :
        r \in 1..NumUsers, cs \in CommentLists, fl \in FieldLists(1),
        tg \in BOOLEAN}
    \cup {RawTicket(1, f, <<>>, fl, TRUE) :
        f \in {"error", "malformed"}, fl \in FieldLists(1)}

\* the tickets of an import run: an empty thread, a thread with an agent
\* answer, a thread of the requester alone, a malformed thread, a failed
\* comment fetch, and a ticket whose tags are not an array
TicketShapes ==
    { RawTicket(1, "ok", <<>>, <<>>, TRUE),
      RawTicket(1, "ok", <<[author_id |-> 2, body |-> "a", public |-> TRUE]>>,
                <<[id |-> 1, value |-> "x"]>>, TRUE),
      RawTicket(1, "ok", <<[author_id |-> 1, body |-> "a", public |-> TRUE]>>,
                <<>>, TRUE),
      RawTicket(1, "malformed", <<>>, <<>>, TRUE),
      RawTicket(1, "error", <<>>, <<[id |-> 1, value |-> "x"]>>, TRUE),
      RawTicket(1, "ok", <<>>, <<>>, FALSE) }

TicketLists == UNION { [1..n -> TicketShapes] : n \in 0..MaxTickets }

NoResponse ==
    [code |-> 0, status |-> "none", ticketsProcessed |-> 0, totalChunks |-> 0,
     recordId |-> 0]

(***************************************************************************)
(* zendesk.js                                                              *)
(***************************************************************************)

\* mappedFields[name] = entry: a new key is added last, an existing key
\* keeps its place and takes the new value
MapPut(m, entry) ==
    IF \E k \in 1..Len(m) : m[k].name = entry.name
    THEN [k \in 1..Len(m) |-> IF m[k].name = entry.name THEN entry ELSE m[k]]
    ELSE Append(m, entry)

\* the entry mapTicketCustomFields writes for one field of the ticket
MappedEntry(field, fm) ==
    IF field.id \in DOMAIN fm
    THEN [name |-> fm[field.id].title, value |-> field.value,
          type |-> fm[field.id].type, key |-> fm[field.id].key,
          description |-> fm[field.id].description]
    ELSE [name |-> SyntheticName(field.id), value |-> field.value,
          type |-> "unknown", key |-> "", description |-> ""]

\* mapTicketCustomFields(ticket, fieldsMap): the entries of mappedFields, in
\* key order
RECURSIVE MapFields(_, _, _)
MapFields(fields, fm, acc) ==
    IF fields = <<>> THEN acc
    ELSE IF Head(fields).value = null \/ Head(fields).value = ""
    THEN MapFields(Tail(fields), fm, acc)
    ELSE MapFields(Tail(fields), fm,
                   MapPut(acc, MappedEntry(Head(fields), fm)))

mapTicketCustomFields(fields, fm) == MapFields(fields, fm, <<>>)

\* fetchTicketComments(ticket.id): [] when the request fails
fetchTicketComments(t) == IF t.fetch = "ok" THEN t.comments ELSE <<>>

\* enrichTicketWithComments raises on this ticket
EnrichRaises(t) == t.fetch = "malformed"

\* comments.map(comment => ({author: ..., message: ..., public: ...}))
conversation(t) ==
    [i \in 1..Len(fetchTicketComments(t)) |->
        [author  |-> IF fetchTicketComments(t)[i].author_id = t.requester_id
                     THEN "Customer" ELSE "Agent",
         message |-> fetchTicketComments(t)[i].body,
         public  |-> fetchTicketComments(t)[i].public]]

IsAgentComment(c) == c.author = "Agent" /\ Trim(c.message) # ""

\* conversation.filter(c => c.author === 'Agent' && c.message.trim())
agentComments(conv) == SelectSeq(conv, IsAgentComment)

\* A resolution taken from the first agent comment.
resolution_First(conv) ==
    IF Len(agentComments(conv)) > 0 THEN agentComments(conv)[1].message
    ELSE null

\* agentComments.length > 0 ? agentComments[agentComments.length - 1].message : null
resolution(conv) ==
    IF Len(agentComments(conv)) > 0
    THEN agentComments(conv)[Len(agentComments(conv))].message
    ELSE null

\* enrichTicketWithComments(ticket, fieldsMap): the enriched ticket
enrichTicketWithComments(id, t, fm) ==
    [ticket_id     |-> id,
     subject       |-> t.subject,
     description   |-> t.description,
     status        |-> t.status,
     priority      |-> t.priority,
     conversation  |-> conversation(t),
     resolution    |-> resolution(conversation(t)),
     custom_fields |-> mapTicketCustomFields(t.custom_fields, fm),
     requester_id  |-> t.requester_id,
     tagsOk        |-> t.tagsOk]

\* the quick-mode stand-in for an enriched ticket (navbar.js 539-551)
QuickTicket(id, t) ==
    [ticket_id     |-> id,
     subject       |-> t.subject,
     description   |-> t.description,
     status        |-> t.status,
     priority      |-> t.priority,
     conversation  |-> <<>>,
     resolution    |-> null,
     custom_fields |-> <<>>,
     requester_id  |-> t.requester_id,
     tagsOk        |-> t.tagsOk]

\* A recorder that lets a failed POST escape to its caller.
createZendeskImportRecord_Throws(creds, postOk, patchOk, id) ==
    IF creds /\ postOk /\ patchOk
    THEN [threw |-> FALSE, id |-> id, posted |-> TRUE, patched |-> TRUE]
    ELSE [threw |-> TRUE, id |-> 0, posted |-> creds /\ postOk, patched |-> FALSE]

\* createZendeskImportRecord: POST the record, PATCH its fields; any failure
\* (no credentials, POST, PATCH) is caught, logged and answered with null.
createZendeskImportRecord(creds, postOk, patchOk, id) ==
    IF ~creds \/ ~postOk
    THEN [threw |-> FALSE, id |-> 0, posted |-> FALSE, patched |-> FALSE]
    ELSE IF ~patchOk
    THEN [threw |-> FALSE, id |-> 0, posted |-> TRUE, patched |-> FALSE]
    ELSE [threw |-> FALSE, id |-> id, posted |-> TRUE, patched |-> TRUE]

\* createZendeskErrorImportRecord: the same protocol on kb_import_errors
createZendeskErrorImportRecord(creds, postOk, patchOk, id) ==
    IF ~creds \/ ~postOk
    THEN [threw |-> FALSE, id |-> 0, posted |-> FALSE, patched |-> FALSE]
    ELSE IF ~patchOk
    THEN [threw |-> FALSE, id |-> 0, posted |-> TRUE, patched |-> FALSE]
    ELSE [threw |-> FALSE, id |-> id, posted |-> TRUE, patched |-> TRUE]

(***************************************************************************)
(* chunking.js                                                             *)
(***************************************************************************)

\* chunkTicketData raises on this ticket (tags.join on a non-array)
ChunkRaises(e) == ~e.tagsOk

\* `${name}: ${value}` lines of the overview, joined by '\n'
customFieldsText(e) ==
    IF Len(e.custom_fields) > 0
    THEN <<"\nCustom Fields:\n">>
         \o Join([k \in 1..Len(e.custom_fields) |->
                    <<e.custom_fields[k].name, ": ", e.custom_fields[k].value>>],
                 "\n")
    ELSE <<>>

\* the overview text (tags are empty in the model: 'None')
mainContent(e) ==
    <<"Ticket ID: ", ToString(e.ticket_id),
      "\nSubject: ", e.subject,
      "\nDescription: ", (IF e.description # "" THEN e.description ELSE "N/A"),
      "\nStatus: ", e.status,
      "\nPriority: ", e.priority,
      "\nTags: ", "None">> \o customFieldsText(e)

\* ticket.conversation.map((msg, idx) => `${idx + 1}. ${msg.author}:
\* ${msg.message}`).join('\n\n')
conversationText(e) ==
    Join([k \in 1..Len(e.conversation) |->
            <<ToString(k), ". ", e.conversation[k].author, ": ",
              e.conversation[k].message>>],
         "\n\n")

\* A resolution text that starts at the problem line.
resolutionText_NoTicket(e) ==
    <<"Problem: ", e.subject, "\nSolution: ", e.resolution,
      "\nRelated Tags: ", "None">>

resolutionText(e) ==
    <<"Ticket ", ToString(e.ticket_id), " Resolution:\nProblem: ", e.subject,
      "\nSolution: ", e.resolution, "\nRelated Tags: ", "None">>

\* A chunker that emits a resolution chunk for every ticket.
HasResolution_Always(e) == TRUE

\* if (ticket.resolution)
HasResolution(e) == e.resolution # null /\ e.resolution # ""

\* `${name} (${type}): ${value}` lines, joined by '\n'
fieldsText(e) ==
    Join([k \in 1..Len(e.custom_fields) |->
            <<e.custom_fields[k].name, " (", e.custom_fields[k].type, ")", ": ",
              e.custom_fields[k].value>>],
         "\n")

\* chunkTicketData(ticket): the chunks, in emission order
chunkTicketData(e) ==
    <<[type |-> "ticket_overview", ticket_id |-> e.ticket_id,
       text |-> mainContent(e)]>>
    \o (IF Len(e.conversation) > 0
        THEN <<[type |-> "conversation", ticket_id |-> e.ticket_id,
                text |-> <<"Ticket ", ToString(e.ticket_id), " Conversation:\n\n">>
                         \o conversationText(e)]>>
        ELSE <<>>)
    \o (IF HasResolution(e)
        THEN <<[type |-> "resolution", ticket_id |-> e.ticket_id,
                text |-> resolutionText(e)]>>
        ELSE <<>>)
    \o (IF Len(e.custom_fields) > 0
        THEN <<[type |-> "custom_fields", ticket_id |-> e.ticket_id,
                text |-> <<"Ticket ", ToString(e.ticket_id), " Form Fields:\n\n">>
                         \o fieldsText(e)]>>
        ELSE <<>>)

\* chunks.map((chunk, i) => ({chunk, ticketId, chunkIndex: i}))
ChunkEntries(e) ==
    [i \in 1..Len(chunkTicketData(e)) |->
        [ticketId |-> e.ticket_id, chunkIndex |-> i - 1,
         type |-> chunkTicketData(e)[i].type]]

RECURSIVE AllChunksOf(_)
AllChunksOf(es) ==
    IF es = <<>> THEN <<>>
    ELSE ChunkEntries(Head(es)) \o AllChunksOf(Tail(es))

RECURSIVE SumChunks(_)
SumChunks(es) ==
    IF es = <<>> THEN 0
    ELSE Len(chunkTicketData(Head(es))) + SumChunks(Tail(es))

Min(a, b) == IF a < b THEN a ELSE b

(***************************************************************************)
(* navbar.js: autoImportTickets                                            *)
(***************************************************************************)

InitRun ==
    /\ variant \in {"batched", "queue"}
    /\ mode \in {"standard", "quick"}
    /\ (variant = "queue" => mode = "standard")
    /\ dates \in {"missing", "invalid", "valid"}
    /\ credentials \in BOOLEAN
    /\ pc = "idle"
    /\ tickets = <<>>
    /\ enrichIdx = 0
    /\ enrichedTickets = <<>>
    /\ allChunks = <<>>
    /\ embedIdx = 0
    /\ embedFailures = 0
    /\ vectors = <<>>
    /\ upIdx = 0
    /\ written = <<>>
    /\ commentFetches = 0
    /\ embedCalls = 0
    /\ auditLog = <<>>
    /\ customRecord = 0
    /\ errorRecord = 0
    /\ thrownAt = "none"
    /\ response = NoResponse
    /\ nResponses = 0

\* an exception of the given phase reaches the catch block
Throw(phase) ==
    /\ thrownAt' = phase
    /\ pc' = "catch"

\* res.status(code).json(...)
Respond(r) ==
    /\ response' = r
    /\ nResponses' = nResponses + 1
    /\ pc' = "done"

\* if (!startDate || !endDate) return res.status(400)...
Validate ==
    /\ pc = "idle"
    /\ IF dates = "missing"
       THEN /\ Respond([code |-> 400, status |-> "startDate and endDate are required",
                        ticketsProcessed |-> 0, totalChunks |-> 0, recordId |-> 0])
            /\ UNCHANGED thrownAt
       ELSE /\ pc' = "fields"
            /\ UNCHANGED <<thrownAt, response, nResponses>>
    /\ UNCHANGED <<regVars, embVars, batVars, tktVars, auxVars>>
    /\ UNCHANGED <<variant, mode, dates, credentials, tickets, enrichIdx,
                   enrichedTickets, allChunks, embedIdx, embedFailures, vectors,
                   upIdx, written, commentFetches, embedCalls, auditLog,
                   customRecord, errorRecord>>

\* const fieldsMap = await fetchFormFields();  createZendeskClient raises
\* without credentials, every other failure is absorbed by fetchFormFields
FetchFields ==
    /\ pc = "fields"
    /\ IF credentials
       THEN pc' = "tickets" /\ UNCHANGED thrownAt
       ELSE Throw("fields")
    /\ UNCHANGED <<regVars, embVars, batVars, tktVars, auxVars>>
    /\ UNCHANGED <<variant, mode, dates, credentials, tickets, enrichIdx,
                   enrichedTickets, allChunks, embedIdx, embedFailures, vectors,
                   upIdx, written, commentFetches, embedCalls, auditLog,
                   customRecord, errorRecord, response, nResponses>>

\* const tickets = await fetchTicketsByDateRange(startDate, endDate);
\* formatDate raises a RangeError on a string that is no date; page failures
\* only truncate the list
FetchTickets ==
    /\ pc = "tickets"
    /\ IF dates = "invalid"
       THEN Throw("tickets") /\ UNCHANGED tickets
       ELSE /\ \E ts \in TicketLists : tickets' = ts
            /\ pc' = "audit"
            /\ UNCHANGED thrownAt
    /\ UNCHANGED <<regVars, embVars, batVars, tktVars, auxVars>>
    /\ UNCHANGED <<variant, mode, dates, credentials, enrichIdx,
                   enrichedTickets, allChunks, embedIdx, embedFailures, vectors,
                   upIdx, written, commentFetches, embedCalls, auditLog,
                   customRecord, errorRecord, response, nResponses>>

\* The zero-ticket return taken before the import record is written.
WriteImportRecord_ReturnFirst ==
    /\ pc = "audit"
    /\ IF Len(tickets) = 0
       THEN /\ Respond([code |-> 200, status |-> "No tickets found in date range",
                        ticketsProcessed |-> 0, totalChunks |-> 0, recordId |-> 0])
            /\ UNCHANGED <<auditLog, customRecord, thrownAt>>
       ELSE \E postOk, patchOk \in BOOLEAN :
              LET r == createZendeskImportRecord(credentials, postOk, patchOk,
                                                 Len(auditLog) + 1)
              IN /\ auditLog' = Append(auditLog,
                        [kind |-> "success", ticketCount |-> Len(tickets),
                         phase |-> pc, posted |-> r.posted, patched |-> r.patched])
                 /\ customRecord' = r.id
                 /\ pc' = "enrich"
                 /\ UNCHANGED <<thrownAt, response, nResponses>>
    /\ UNCHANGED <<regVars, embVars, batVars, tktVars, auxVars>>
    /\ UNCHANGED <<variant, mode, dates, credentials, tickets, enrichIdx,
                   enrichedTickets, allChunks, embedIdx, embedFailures, vectors,
                   upIdx, written, commentFetches, embedCalls, errorRecord>>

\* const customRecord = await createZendeskImportRecord({..., ticketCount:
\* tickets.length, ...}); if (tickets.length === 0) return res.json({...})
WriteImportRecord ==
    /\ pc = "audit"
    /\ \E postOk, patchOk \in BOOLEAN :
         LET r == createZendeskImportRecord(credentials, postOk, patchOk,
                                            Len(auditLog) + 1)
         IN /\ auditLog' = Append(auditLog,
                   [kind |-> "success", ticketCount |-> Len(tickets),
                    phase |-> pc, posted |-> r.posted, patched |-> r.patched])
            /\ customRecord' = r.id
            /\ IF r.threw
               THEN Throw("audit") /\ UNCHANGED <<response, nResponses>>
               ELSE IF Len(tickets) = 0
               THEN /\ Respond([code |-> 200,
                                status |-> "No tickets found in date range",
                                ticketsProcessed |-> 0, totalChunks |-> 0,
                                recordId |-> r.id])
                    /\ UNCHANGED thrownAt
               ELSE /\ pc' = "enrich"
                    /\ UNCHANGED <<thrownAt, response, nResponses>>
    /\ UNCHANGED <<regVars, embVars, batVars, tktVars, auxVars>>
    /\ UNCHANGED <<variant, mode, dates, credentials, tickets, enrichIdx,
                   enrichedTickets, allChunks, embedIdx, embedFailures, vectors,
                   upIdx, written, commentFetches, embedCalls, errorRecord>>

\* One ticket of the enrichment loop.  Batched handler: try { quick ? push
\* minimal : push(await enrichTicketWithComments) } catch { log }.  Queue
\* handler: Promise.allSettled over enrichmentQueue.add, fulfilled results
\* pushed in input order.
Enrich ==
    /\ pc = "enrich"
    /\ enrichIdx < Len(tickets)
    /\ LET id == enrichIdx + 1
           t  == tickets[id]
       IN IF variant = "batched" /\ mode = "quick"
          THEN /\ enrichedTickets' = Append(enrichedTickets, QuickTicket(id, t))
               /\ UNCHANGED commentFetches
          ELSE /\ commentFetches' = commentFetches + 1
               /\ enrichedTickets' =
                     IF EnrichRaises(t) THEN enrichedTickets
                     ELSE Append(enrichedTickets,
                                 enrichTicketWithComments(id, t, RunFieldsMap))
    /\ enrichIdx' = enrichIdx + 1
    /\ pc' = IF enrichIdx + 1 = Len(tickets) THEN "chunk" ELSE "enrich"
    /\ UNCHANGED <<regVars, embVars, batVars, tktVars, auxVars>>
    /\ UNCHANGED <<variant, mode, dates, credentials, tickets, allChunks,
                   embedIdx, embedFailures, vectors, upIdx, written, embedCalls,
                   auditLog, customRecord, errorRecord, thrownAt, response,
                   nResponses>>

\* for (const ticket of enrichedTickets) allChunks.push(...chunkTicketData(ticket)...)
Chunk ==
    /\ pc = "chunk"
    /\ IF \E k \in 1..Len(enrichedTickets) : ChunkRaises(enrichedTickets[k])
       THEN Throw("chunk") /\ UNCHANGED allChunks
       ELSE /\ allChunks' = AllChunksOf(enrichedTickets)
            /\ pc' = IF AllChunksOf(enrichedTickets) = <<>> THEN "upsert" ELSE "embed"
            /\ UNCHANGED thrownAt
    /\ UNCHANGED <<regVars, embVars, batVars, tktVars, auxVars>>
    /\ UNCHANGED <<variant, mode, dates, credentials, tickets, enrichIdx,
                   enrichedTickets, embedIdx, embedFailures, vectors, upIdx,
                   written, commentFetches, embedCalls, auditLog, customRecord,
                   errorRecord, response, nResponses>>

\* A batched handler that skips a failed embedding instead of failing.
EmbedFailed_Skip ==
    /\ pc' = IF embedIdx + 1 = Len(allChunks) THEN "upsert" ELSE "embed"
    /\ UNCHANGED <<vectors, thrownAt>>

\* embedText failed on the current text.  Batched handler: embedTextBatch
\* rethrows (fail fast) and the handler rethrows "Embedding generation
\* failed".  Queue handler: the rejected result is logged and skipped.
EmbedFailed ==
    IF variant = "batched"
    THEN Throw("embed") /\ UNCHANGED vectors
    ELSE /\ pc' = IF embedIdx + 1 = Len(allChunks) THEN "upsert" ELSE "embed"
         /\ UNCHANGED <<vectors, thrownAt>>

\* One text of the embedding loop; a fulfilled embedding becomes the vector
\* `auto-ticket-${ticketId}-chunk-${chunkIndex}-${timestamp}`.
Embed ==
    /\ pc = "embed"
    /\ embedIdx < Len(allChunks)
    /\ embedCalls' = embedCalls + 1
    /\ embedIdx' = embedIdx + 1
    /\ \E ok \in BOOLEAN :
         IF ok
         THEN /\ vectors' = Append(vectors,
                    [ticketId |-> allChunks[embedIdx + 1].ticketId,
                     chunkIndex |-> allChunks[embedIdx + 1].chunkIndex])
              /\ pc' = IF embedIdx + 1 = Len(allChunks) THEN "upsert" ELSE "embed"
              /\ UNCHANGED <<thrownAt, embedFailures>>
         ELSE /\ embedFailures < MaxEmbedFailures
              /\ embedFailures' = embedFailures + 1
              /\ EmbedFailed
    /\ UNCHANGED <<regVars, embVars, batVars, tktVars, auxVars>>
    /\ UNCHANGED <<variant, mode, dates, credentials, tickets, enrichIdx,
                   enrichedTickets, allChunks, upIdx, written, commentFetches,
                   auditLog, customRecord, errorRecord, response, nResponses>>

\* upsertVectors: one index.upsert(batch) of at most batchSize vectors
UpsertBatch ==
    /\ pc = "upsert"
    /\ upIdx < Len(vectors)
    /\ \E ok \in BOOLEAN :
         IF ok
         THEN /\ written' = written \o
                    SubSeq(vectors, upIdx + 1, Min(upIdx + UpsertBatchSize, Len(vectors)))
              /\ upIdx' = Min(upIdx + UpsertBatchSize, Len(vectors))
              /\ UNCHANGED <<pc, thrownAt>>
         ELSE /\ Throw("upsert")
              /\ UNCHANGED <<written, upIdx>>
    /\ UNCHANGED <<regVars, embVars, batVars, tktVars, auxVars>>
    /\ UNCHANGED <<variant, mode, dates, credentials, tickets, enrichIdx,
                   enrichedTickets, allChunks, embedIdx, embedFailures, vectors,
                   commentFetches, embedCalls, auditLog, customRecord,
                   errorRecord, response, nResponses>>

\* res.json({status: "Import completed successfully", ...})
RespondSuccess ==
    /\ pc = "upsert"
    /\ upIdx >= Len(vectors)
    /\ Respond([code |-> 200, status |-> "Import completed successfully",
                ticketsProcessed |-> Len(enrichedTickets),
                totalChunks |-> Len(vectors), recordId |-> customRecord])
    /\ UNCHANGED <<regVars, embVars, batVars, tktVars, auxVars>>
    /\ UNCHANGED <<variant, mode, dates, credentials, tickets, enrichIdx,
                   enrichedTickets, allChunks, embedIdx, embedFailures, vectors,
                   upIdx, written, commentFetches, embedCalls, auditLog,
                   customRecord, errorRecord, thrownAt>>

\* A catch block that answers without writing the error record.
CatchAudit_NoWrite ==
    /\ pc = "catch"
    /\ pc' = "respondError"
    /\ UNCHANGED <<regVars, embVars, batVars, tktVars, auxVars>>
    /\ UNCHANGED <<variant, mode, dates, credentials, tickets, enrichIdx,
                   enrichedTickets, allChunks, embedIdx, embedFailures, vectors,
                   upIdx, written, commentFetches, embedCalls, auditLog,
                   customRecord, errorRecord, thrownAt, response, nResponses>>

\* catch (err) { const errorRecord = await createZendeskErrorImportRecord(...)
CatchAudit ==
    /\ pc = "catch"
    /\ \E postOk, patchOk \in BOOLEAN :
         LET r == createZendeskErrorImportRecord(credentials, postOk, patchOk,
                                                 Len(auditLog) + 1)
         IN /\ auditLog' = Append(auditLog,
                   [kind |-> "failure", ticketCount |-> 0, phase |-> pc,
                    posted |-> r.posted, patched |-> r.patched])
            /\ errorRecord' = r.id
    /\ pc' = "respondError"
    /\ UNCHANGED <<regVars, embVars, batVars, tktVars, auxVars>>
    /\ UNCHANGED <<variant, mode, dates, credentials, tickets, enrichIdx,
                   enrichedTickets, allChunks, embedIdx, embedFailures, vectors,
                   upIdx, written, commentFetches, embedCalls, customRecord,
                   thrownAt, response, nResponses>>

\* res.status(500).json({error: "Auto-import failed", ...}) }
RespondError ==
    /\ pc = "respondError"
    /\ Respond([code |-> 500, status |-> "Auto-import failed",
                ticketsProcessed |-> 0, totalChunks |-> 0, recordId |-> errorRecord])
    /\ UNCHANGED <<regVars, embVars, batVars, tktVars, auxVars>>
    /\ UNCHANGED <<variant, mode, dates, credentials, tickets, enrichIdx,
                   enrichedTickets, allChunks, embedIdx, embedFailures, vectors,
                   upIdx, written, commentFetches, embedCalls, auditLog,
                   customRecord, errorRecord, thrownAt>>

(***************************************************************************)
(* zendesk.js: fetchFormFields, called by NumCallers concurrent requests   *)
(***************************************************************************)
NumCallers == 3
NumFieldPages == 2

Callers == 1..NumCallers

\* the fields of page k of GET /ticket_fields.json (one field per page)
FieldsOfPage(k) == {k}

NullCache == [loaded |-> FALSE, fields |-> {}]

InitRegistry ==
    /\ zendeskCreds \in BOOLEAN
    /\ formFieldsCache = NullCache
    /\ cpc = [p \in Callers |-> "idle"]
    /\ fieldsMap = [p \in Callers |-> {}]
    /\ page = [p \in Callers |-> 0]
    /\ io = [p \in Callers |-> 0]
    /\ ret = [p \in Callers |-> {}]

\* const fieldsMap = {}; let nextUrl = '/ticket_fields.json';
\* ... await zendeskClient.get(nextUrl): the first request goes out
BeginLoad(p) ==
    /\ cpc' = [cpc EXCEPT ![p] = "get"]
    /\ fieldsMap' = [fieldsMap EXCEPT ![p] = {}]
    /\ page' = [page EXCEPT ![p] = 1]
    /\ io' = [io EXCEPT ![p] = 1]
    /\ UNCHANGED <<formFieldsCache, ret>>

\* fetchFormFields() up to its first await
CallFetchFormFields(p) ==
    /\ cpc[p] = "idle"
    /\ IF formFieldsCache.loaded
       THEN \* if (formFieldsCache) return formFieldsCache;
            /\ cpc' = [cpc EXCEPT ![p] = "returned"]
            /\ ret' = [ret EXCEPT ![p] = formFieldsCache.fields]
            /\ UNCHANGED <<formFieldsCache, fieldsMap, page, io>>
       ELSE IF ~zendeskCreds
       THEN \* createZendeskClient() raises outside the try
            /\ cpc' = [cpc EXCEPT ![p] = "threw"]
            /\ UNCHANGED <<formFieldsCache, fieldsMap, page, io, ret>>
       ELSE BeginLoad(p)
    /\ UNCHANGED zendeskCreds
    /\ UNCHANGED <<runVars, embVars, batVars, tktVars, auxVars>>

\* formFieldsCache = fieldsMap; return fieldsMap;
FinishLoad(p, m) ==
    /\ formFieldsCache' = [loaded |-> TRUE, fields |-> m]
    /\ ret' = [ret EXCEPT ![p] = m]
    /\ cpc' = [cpc EXCEPT ![p] = "returned"]

\* the answer to the GET of the current page arrives
PageResponse(p) ==
    /\ cpc[p] = "get"
    /\ \E ok \in BOOLEAN :
         IF ok
         THEN LET m == fieldsMap[p] \cup FieldsOfPage(page[p])
              IN /\ fieldsMap' = [fieldsMap EXCEPT ![p] = m]
                 /\ IF page[p] < NumFieldPages
                    THEN \* next_page is set: sleep 500 ms, then go on
                         /\ cpc' = [cpc EXCEPT ![p] = "sleep"]
                         /\ UNCHANGED <<formFieldsCache, ret>>
                    ELSE FinishLoad(p, m)
         ELSE \* catch (err) { ...; break; }
              /\ FinishLoad(p, fieldsMap[p])
              /\ UNCHANGED fieldsMap
    /\ UNCHANGED <<zendeskCreds, page, io>>
    /\ UNCHANGED <<runVars, embVars, batVars, tktVars, auxVars>>

\* the 500 ms pause ends and the GET of the next page goes out
NextPage(p) ==
    /\ cpc[p] = "sleep"
    /\ cpc' = [cpc EXCEPT ![p] = "get"]
    /\ page' = [page EXCEPT ![p] = page[p] + 1]
    /\ io' = [io EXCEPT ![p] = io[p] + 1]
    /\ UNCHANGED <<zendeskCreds, formFieldsCache, fieldsMap, ret>>
    /\ UNCHANGED <<runVars, embVars, batVars, tktVars, auxVars>>

(***************************************************************************)
(* services/embedding.js (OpenAI variant): embedText                       *)
(***************************************************************************)
MaxEmbedCalls == 2
NumTexts == 2
NumVectors == 2
MaxRetryAfter == 3
MaxExcess == 2
MaxClears == 1

maxRetries == 5
baseRetryDelay == 1000
delayBetweenRequests == 20

\* A text is known by its length and by the content of its first
\* min(len, MAX_CHARS) characters (prefix): two texts longer than MAX_CHARS
\* with the same prefix differ only after character MAX_CHARS.  marked: the
\* text ends with the truncation marker embedText appends.
Texts ==
    [prefix : 1..NumTexts, len : (MAX_CHARS - 1)..(MAX_CHARS + MaxExcess),
     marked : {FALSE}]

\* processText = text.length > MAX_CHARS
\*     ? text.substring(0, MAX_CHARS) + '... [truncated]' : text
Truncate(text) ==
    IF text.len > MAX_CHARS
    THEN [prefix |-> text.prefix, len |-> MAX_CHARS + Len(TruncationMarker),
          marked |-> TRUE]
    ELSE text

\* the keys embeddingCache can hold
CacheKeys == {Truncate(t) : t \in Texts}

Vectors == 1..NumVectors

\* A cache lookup that never hits.
CacheHas_Never(cache, key) == FALSE

\* embeddingCache.has(processText)
CacheHas(cache, key) == cache[key] # 0

\* A client that does not store the embedding it received.
CacheSet_Skip(cache, key, v) == cache

\* embeddingCache.set(processText, embedding)
CacheSet(cache, key, v) == [cache EXCEPT ![key] = v]

\* the retry-after header of a 429 response: absent, a number of seconds, or
\* a value parseFloat cannot read (an HTTP date)
RetryAfterHeaders ==
    {[kind |-> "absent", secs |-> 0], [kind |-> "date", secs |-> 0]}
    \cup {[kind |-> "seconds", secs |-> n] : n \in 0..MaxRetryAfter}

\* what can come back for one request: a 200 with or without an embedding, an
\* HTTP error status, ECONNRESET/ETIMEDOUT/ENOTFOUND ("network"), another
\* connection error such as ECONNREFUSED ("refused"), or the axios timeout
Answers ==
    {"ok", "malformed", "404", "400", "500", "network", "refused", "timeout"}

RECURSIVE Pow2(_)
Pow2(n) == IF n = 0 THEN 1 ELSE 2 * Pow2(n - 1)

\* RATE_LIMIT.baseRetryDelay * Math.pow(2, attempt)
Backoff(a) == baseRetryDelay * Pow2(a)

\* const retryAfter = headers['retry-after'] || base * 2^attempt;
\* const retryDelay = parseFloat(retryAfter) * 1000 || base * 2^attempt;
\* (x || y is y when x is undefined, 0 or NaN; the string "0" is truthy)
RetryDelay429(h, a) ==
    LET retryAfterIsNumber == h.kind # "date"
        retryAfter == IF h.kind = "absent" THEN Backoff(a) ELSE h.secs
        product == retryAfter * 1000
    IN IF retryAfterIsNumber /\ product # 0 THEN product ELSE Backoff(a)

\* A client that surfaces a server error at once.
OnServerError_NoRetry(a) == [retry |-> FALSE, sleep |-> 0]

\* if (error.response?.status >= 500) { sleep(base * 2^attempt); continue; }
OnServerError(a) == [retry |-> TRUE, sleep |-> Backoff(a)]

\* A client that retries every failed request.
OnFailure_RetryAll(status, h, a) ==
    CASE status = "429" -> [retry |-> TRUE, sleep |-> RetryDelay429(h, a)]
      [] OTHER -> [retry |-> TRUE, sleep |-> Backoff(a)]

\* what the catch block of the retry loop does with a failed request
OnFailure(status, h, a) ==
    CASE status = "429" -> [retry |-> TRUE, sleep |-> RetryDelay429(h, a)]
      [] status = "404" -> [retry |-> FALSE, sleep |-> 0]
      [] status = "500" -> OnServerError(a)
      [] status \in {"network", "timeout"} -> [retry |-> TRUE, sleep |-> Backoff(a)]
      [] OTHER -> [retry |-> FALSE, sleep |-> 0]

CacheSize == Cardinality({k \in CacheKeys : embeddingCache[k] # 0})

InitEmbed ==
    /\ apiKey \in BOOLEAN
    /\ embeddingCache = [k \in CacheKeys |-> 0]
    /\ ecalls = 0
    /\ epc = "idle"
    /\ earg = CHOOSE t \in Texts : TRUE
    /\ etext = Truncate(earg)
    /\ attempt = 0
    /\ requests = 0
    /\ lastStatus = "none"
    /\ lastHeader = [kind |-> "absent", secs |-> 0]
    /\ lastAttempt = 0
    /\ lastSleep = 0
    /\ lastPause = 0
    /\ errKind = "none"
    /\ evector = 0
    /\ clears = 0
    /\ returns = <<>>

\* embedText(text) up to the retry loop
CallEmbedText ==
    /\ epc \in {"idle", "returned", "failed"}
    /\ ecalls < MaxEmbedCalls
    /\ ecalls' = ecalls + 1
    /\ \E t \in Texts :
         /\ earg' = t
         /\ etext' = Truncate(t)
         /\ IF ~apiKey
            THEN \* throw new Error("OPENAI_API_KEY not configured")
                 /\ epc' = "failed" /\ errKind' = "config" /\ evector' = 0
                 /\ UNCHANGED returns
            ELSE IF CacheHas(embeddingCache, Truncate(t))
            THEN \* cache hit: return embeddingCache.get(processText)
                 /\ epc' = "returned" /\ errKind' = "none"
                 /\ evector' = embeddingCache[Truncate(t)]
                 /\ returns' = Append(returns,
                        [text |-> t, vector |-> embeddingCache[Truncate(t)],
                         epoch |-> clears])
            ELSE /\ epc' = "attempt" /\ errKind' = "none" /\ evector' = 0
                 /\ UNCHANGED returns
    /\ attempt' = 0
    /\ requests' = 0
    /\ lastStatus' = "none"
    /\ lastHeader' = [kind |-> "absent", secs |-> 0]
    /\ lastAttempt' = 0
    /\ lastSleep' = 0
    /\ lastPause' = 0
    /\ UNCHANGED <<apiKey, embeddingCache, clears>>
    /\ UNCHANGED <<runVars, regVars, batVars, tktVars, auxVars>>

\* one iteration of for (attempt = 0; attempt < maxRetries; attempt++)
Attempt ==
    /\ epc = "attempt"
    /\ attempt < maxRetries
    /\ requests' = requests + 1
    /\ lastPause' = IF attempt > 0 \/ CacheSize > 0 THEN delayBetweenRequests ELSE 0
    /\ lastAttempt' = attempt
    /\ \E status \in Answers \cup {"429"}, h \in RetryAfterHeaders, v \in Vectors :
         /\ lastStatus' = status
         /\ lastHeader' = IF status = "429" THEN h ELSE [kind |-> "absent", secs |-> 0]
         /\ IF status = "ok"
            THEN /\ embeddingCache' = CacheSet(embeddingCache, etext, v)
                 /\ evector' = v
                 /\ epc' = "returned"
                 /\ lastSleep' = 0
                 /\ returns' = Append(returns,
                        [text |-> earg, vector |-> v, epoch |-> clears])
                 /\ UNCHANGED <<attempt, errKind>>
            ELSE LET f == OnFailure(status, h, attempt)
                 IN /\ lastSleep' = f.sleep
                    /\ UNCHANGED <<embeddingCache, evector, returns>>
                    /\ IF ~f.retry
                       THEN /\ epc' = "failed" /\ errKind' = "fatal"
                            /\ UNCHANGED attempt
                       ELSE /\ attempt' = attempt + 1
                            /\ IF attempt + 1 < maxRetries
                               THEN UNCHANGED <<epc, errKind>>
                               ELSE \* the loop ends: throw "Failed to generate
                                    \* embedding after 5 attempts"
                                    epc' = "failed" /\ errKind' = "exhausted"
    /\ UNCHANGED <<apiKey, ecalls, earg, etext, clears>>
    /\ UNCHANGED <<runVars, regVars, batVars, tktVars, auxVars>>

\* clearEmbeddingCache(), called by the reset and clear-cache endpoints at
\* any moment, also while an embedText call awaits its answer
clearEmbeddingCache ==
    /\ clears < MaxClears
    /\ clears' = clears + 1
    /\ embeddingCache' = [k \in CacheKeys |-> 0]
    /\ UNCHANGED <<apiKey, ecalls, epc, earg, etext, attempt, requests,
                   lastStatus, lastHeader, lastAttempt, lastSleep, lastPause,
                   errKind, evector, returns>>
    /\ UNCHANGED <<runVars, regVars, batVars, tktVars, auxVars>>


(***************************************************************************)
(* services/embedding.js: embedTextBatch and embedTextBatchParallel        *)
(***************************************************************************)
MaxBatchTexts == 4

\* embedTextBatchParallel(texts, concurrency = 3)
concurrency == 3

\* the texts a batch is called with
BatchTexts == {t \in Texts : t.len \in {MAX_CHARS, MAX_CHARS + 1}}

BatchInputs == UNION { [1..n -> BatchTexts] : n \in 0..MaxBatchTexts }

InitBatch ==
    /\ bvariant \in {"sequential", "parallel"}
    /\ btexts \in BatchInputs
    /\ bpc = "idle"
    /\ bi = 0
    /\ embeddings = <<>>
    /\ results = <<>>
    /\ pending = {}
    /\ bcalls = 0
    /\ produced = <<>>
    /\ bfailedAt = 0
    /\ bret = <<>>
    /\ hpc = "embedding"
    /\ bupserted = <<>>

\* what `await embedText(text, true)` can yield with the cache as it is: the
\* cached vector on a hit, otherwise any vector of the provider or a failure
\* (vector 0)
embedTextOutcomes(cache, text) ==
    IF CacheHas(cache, Truncate(text))
    THEN {cache[Truncate(text)]}
    ELSE Vectors \cup {0}

\* the cache after that call
CacheAfter(cache, text, v) ==
    IF v = 0 \/ CacheHas(cache, Truncate(text)) THEN cache
    ELSE CacheSet(cache, Truncate(text), v)

\* A batch that logs the failed text and goes on with the next one.
BatchRethrows_Continue == FALSE

\* catch (error) { ...; throw error; // Fail fast }
BatchRethrows == TRUE

\* results.filter(r => r !== undefined)
RECURSIVE FilterDefined(_)
FilterDefined(rs) ==
    IF rs = <<>> THEN <<>>
    ELSE (IF Head(rs) # 0 THEN <<Head(rs)>> ELSE <<>>) \o FilterDefined(Tail(rs))

\* embedTextBatch(texts) / embedTextBatchParallel(texts) is called
CallBatch ==
    /\ bpc = "idle"
    /\ bpc' = "loop"
    /\ results' = [i \in 1..Len(btexts) |-> 0]
    /\ produced' = [i \in 1..Len(btexts) |-> 0]
    /\ UNCHANGED <<hpc, bupserted, bvariant, btexts, bi, embeddings, pending, bcalls,
                   bfailedAt, bret>>
    /\ UNCHANGED <<runVars, regVars, embVars, tktVars, auxVars>>

\* embedTextBatch: one iteration of for (let i = 0; i < totalTexts; i++)
BatchStep ==
    /\ bpc = "loop" /\ bvariant = "sequential"
    /\ bi < Len(btexts)
    /\ bcalls' = bcalls + 1
    /\ \E v \in embedTextOutcomes(embeddingCache, btexts[bi + 1]) :
         /\ embeddingCache' = CacheAfter(embeddingCache, btexts[bi + 1], v)
         /\ produced' = [produced EXCEPT ![bi + 1] = v]
         /\ IF v # 0
            THEN /\ embeddings' = Append(embeddings, v)
                 /\ UNCHANGED <<bpc, bfailedAt>>
            ELSE /\ UNCHANGED embeddings
                 /\ IF BatchRethrows
                    THEN bpc' = "failed" /\ bfailedAt' = bi + 1
                    ELSE UNCHANGED <<bpc, bfailedAt>>
    /\ bi' = bi + 1
    /\ UNCHANGED <<hpc, bupserted, bvariant, btexts, results, pending, bret>>
    /\ UNCHANGED <<runVars, regVars, tktVars, auxVars>>
    /\ UNCHANGED <<apiKey, ecalls, epc, earg, etext, attempt, requests,
                   lastStatus, lastHeader, lastAttempt, lastSleep, lastPause,
                   errKind, evector, clears, returns>>

\* embedTextBatch: return embeddings
BatchReturn ==
    /\ bpc = "loop" /\ bvariant = "sequential"
    /\ bi = Len(btexts)
    /\ bret' = embeddings
    /\ bpc' = "returned"
    /\ UNCHANGED <<hpc, bupserted, bvariant, btexts, bi, embeddings, results, pending, bcalls,
                   produced, bfailedAt>>
    /\ UNCHANGED <<runVars, regVars, embVars, tktVars, auxVars>>

\* A handler that goes on with the embeddings the failed batch had computed.
EmbeddingFailureAborts_Partial == FALSE

\* catch (error) { throw new Error(`Embedding generation failed: ...`) }
EmbeddingFailureAborts == TRUE

\* autoImportTickets after `await embedTextBatch(texts, ...)`: a failed batch
\* is rethrown; otherwise vectors = embeddings.map((embedding, idx) =>
\* ({... allChunks[idx] ..., values: embedding})) and upsertVectors(vectors)
ImportAfterBatch ==
    /\ hpc = "embedding" /\ bvariant = "sequential"
    /\ bpc \in {"returned", "failed"}
    /\ IF bpc = "failed" /\ EmbeddingFailureAborts
       THEN hpc' = "embedThrew" /\ UNCHANGED bupserted
       ELSE LET es == IF bpc = "failed" THEN embeddings ELSE bret
            IN \E upsertOk \in BOOLEAN :
                 IF upsertOk
                 THEN /\ bupserted' = [k \in 1..Len(es) |->
                                          [chunk |-> k, values |-> es[k]]]
                      /\ hpc' = "upserted"
                 ELSE hpc' = "upsertThrew" /\ UNCHANGED bupserted
    /\ UNCHANGED <<bvariant, btexts, bpc, bi, embeddings, results, pending,
                   bcalls, produced, bfailedAt, bret>>
    /\ UNCHANGED <<runVars, regVars, embVars, tktVars, auxVars>>

\* the indices of the chunk that starts at bi
ChunkIndices == {i \in 1..Len(btexts) : bi < i /\ i <= bi + concurrency}

\* embedTextBatchParallel: chunk.map(... embedText(text, true) ...): every
\* call of the chunk starts; a call whose text is cached has its vector at
\* once, the others send their request
ParallelStart ==
    /\ bpc = "loop" /\ bvariant = "parallel"
    /\ pending = {} /\ bi < Len(btexts)
    /\ LET hits == {i \in ChunkIndices :
                       CacheHas(embeddingCache, Truncate(btexts[i]))}
           got(i) == embeddingCache[Truncate(btexts[i])]
       IN /\ results' = [i \in 1..Len(btexts) |->
                            IF i \in hits THEN got(i) ELSE results[i]]
          /\ produced' = [i \in 1..Len(btexts) |->
                            IF i \in hits THEN got(i) ELSE produced[i]]
          /\ pending' = ChunkIndices \ hits
          /\ bi' = IF ChunkIndices = hits
                   THEN bi + Cardinality(ChunkIndices) ELSE bi
    /\ bcalls' = bcalls + Cardinality(ChunkIndices)
    /\ UNCHANGED <<hpc, bupserted, bvariant, btexts, bpc, embeddings, bfailedAt, bret>>
    /\ UNCHANGED <<runVars, regVars, embVars, tktVars, auxVars>>

\* embedTextBatchParallel: one call of the chunk in flight settles, in any
\* order; the first rejection rejects Promise.all and the batch, the other
\* calls of the chunk still run to their end
ParallelSettle ==
    /\ bvariant = "parallel" /\ bpc \in {"loop", "failed"}
    /\ \E i \in pending, v \in Vectors \cup {0} :
         /\ pending' = pending \ {i}
         /\ embeddingCache' =
               IF v = 0 THEN embeddingCache
               ELSE CacheSet(embeddingCache, Truncate(btexts[i]), v)
         /\ produced' = [produced EXCEPT ![i] = v]
         /\ results' = IF v = 0 THEN results ELSE [results EXCEPT ![i] = v]
         /\ IF v = 0 /\ bpc = "loop"
            THEN bpc' = "failed" /\ bfailedAt' = i /\ UNCHANGED bi
            ELSE /\ UNCHANGED <<bpc, bfailedAt>>
                 /\ bi' = IF pending = {i} /\ bpc = "loop"
                          THEN bi + Cardinality(ChunkIndices) ELSE bi
    /\ UNCHANGED <<hpc, bupserted, bvariant, btexts, embeddings, bcalls, bret>>
    /\ UNCHANGED <<runVars, regVars, tktVars, auxVars>>
    /\ UNCHANGED <<apiKey, ecalls, epc, earg, etext, attempt, requests,
                   lastStatus, lastHeader, lastAttempt, lastSleep, lastPause,
                   errKind, evector, clears, returns>>

\* embedTextBatchParallel: return results.filter(r => r !== undefined)
ParallelReturn ==
    /\ bpc = "loop" /\ bvariant = "parallel"
    /\ pending = {} /\ bi = Len(btexts)
    /\ bret' = FilterDefined(results)
    /\ bpc' = "returned"
    /\ UNCHANGED <<hpc, bupserted, bvariant, btexts, bi, embeddings, results, pending, bcalls,
                   produced, bfailedAt>>
    /\ UNCHANGED <<runVars, regVars, embVars, tktVars, auxVars>>

(***************************************************************************)
(* zendesk.js / chunking.js: one ticket enriched and chunked               *)
(***************************************************************************)
\* ticket.id of the ticket
SampleTicketId == 101

InitTicket ==
    /\ traw \in RawTickets
    /\ tpc = "fetched"
    /\ tenriched = <<>>
    /\ tchunks = <<>>

\* enriched = await enrichTicketWithComments(ticket, fieldsMap)
EnrichTicket ==
    /\ tpc = "fetched"
    /\ IF EnrichRaises(traw)
       THEN tpc' = "enrichThrew" /\ UNCHANGED tenriched
       ELSE /\ tenriched' =
                  <<enrichTicketWithComments(SampleTicketId, traw, RunFieldsMap)>>
            /\ tpc' = "enriched"
    /\ UNCHANGED <<traw, tchunks, mfields, mfieldsMap, mpc, mapped>>
    /\ UNCHANGED <<runVars, regVars, embVars, batVars, auxVars>>

\* chunks = chunkTicketData(ticket)
ChunkTicket ==
    /\ tpc = "enriched"
    /\ IF ChunkRaises(tenriched[1])
       THEN tpc' = "chunkThrew" /\ UNCHANGED tchunks
       ELSE tchunks' = chunkTicketData(tenriched[1]) /\ tpc' = "chunked"
    /\ UNCHANGED <<traw, tenriched, mfields, mfieldsMap, mpc, mapped>>
    /\ UNCHANGED <<runVars, regVars, embVars, batVars, auxVars>>

InitFields ==
    /\ mfields \in FieldLists(MaxCustomFields)
    /\ mfieldsMap \in FieldsMaps
    /\ mpc = "idle"
    /\ mapped = <<>>

\* mappedFields = mapTicketCustomFields(ticket, fieldsMap)
MapTicketFields ==
    /\ mpc = "idle"
    /\ mapped' = mapTicketCustomFields(mfields, mfieldsMap)
    /\ mpc' = "mapped"
    /\ UNCHANGED <<traw, tpc, tenriched, tchunks, mfields, mfieldsMap>>
    /\ UNCHANGED <<runVars, regVars, embVars, batVars, auxVars>>

(***************************************************************************)
(* navbar.js: the vector identifiers of one import run                     *)
(***************************************************************************)
NumFileTicketIds == 2
NumTimestamps == 2

\* tickets that neither enrichment nor chunking raises on
ChunkableShapes ==
    {t \in TicketShapes : ~EnrichRaises(t) /\ t.tagsOk}

\* autoImportTickets: the enriched tickets of the search result, each with
\* the id Zendesk gave it
AutoTickets ==
    UNION { { [i \in 1..n |-> enrichTicketWithComments(i, sh[i], RunFieldsMap)] :
                sh \in [1..n -> ChunkableShapes] } : n \in 0..MaxTickets }

\* importFile: extractTicketsFromJSON hands over the tickets of the uploaded
\* JSON as they are; ticket_id is whatever the file says
FileTickets ==
    UNION { { [i \in 1..n |-> enrichTicketWithComments(ids[i], sh[i], RunFieldsMap)] :
                sh \in [1..n -> ChunkableShapes],
                ids \in [1..n -> 1..NumFileTicketIds] } : n \in 0..MaxTickets }

\* `auto-ticket-${ticketId}-chunk-${chunkIndex}-${timestamp}` and
\* `ticket-${ticketId}-chunk-${chunkIndex}-${timestamp}`
VectorId(source, entry, timestamp) ==
    [prefix     |-> IF source = "auto" THEN "auto-ticket" ELSE "ticket",
     ticketId   |-> entry.ticketId,
     chunkIndex |-> entry.chunkIndex,
     timestamp  |-> timestamp]

InitVectors ==
    /\ vsource \in {"auto", "file"}
    /\ vtickets \in (IF vsource = "auto" THEN AutoTickets ELSE FileTickets)
    /\ vpc = "start"
    /\ vallChunks = <<>>
    /\ vtimestamp = 0
    /\ vvectors = <<>>

\* for (const ticket of tickets) allChunks.push(...chunks.map((chunk, i) =>
\*   ({chunk, ticketId: ticket.ticket_id, chunkIndex: i})))
CreateChunks ==
    /\ vpc = "start"
    /\ vallChunks' = AllChunksOf(vtickets)
    /\ vpc' = "chunked"
    /\ UNCHANGED <<vsource, vtickets, vtimestamp, vvectors>>
    /\ UNCHANGED <<runVars, regVars, embVars, batVars, tktVars, extVars>>
    /\ UNCHANGED <<upsVars, stVars, pgVars, audVars>>

\* const timestamp = Date.now(); const vectors = embeddings.map((embedding,
\* idx) => ({id: ..., values: embedding, metadata: ...}))
PrepareVectors ==
    /\ vpc = "chunked"
    /\ \E now \in 1..NumTimestamps :
         /\ vtimestamp' = now
         /\ vvectors' = [i \in 1..Len(vallChunks) |->
                            VectorId(vsource, vallChunks[i], now)]
    /\ vpc' = "prepared"
    /\ UNCHANGED <<vsource, vtickets, vallChunks>>
    /\ UNCHANGED <<runVars, regVars, embVars, batVars, tktVars, extVars>>
    /\ UNCHANGED <<upsVars, stVars, pgVars, audVars>>

(***************************************************************************)
(* pinecone.js: upsertVectors                                              *)
(***************************************************************************)
MaxUpsertVectors == 250

InitUpsert ==
    /\ un \in 0..MaxUpsertVectors
    /\ upc = "start"
    /\ ui = 0
    /\ ucommitted = <<>>
    /\ ufailed = 0

\* const index = await getIndex(); a failed initializeIndex rejects the call
\* before the loop
CallUpsertVectors ==
    /\ upc = "start"
    /\ \E indexOk \in BOOLEAN : upc' = IF indexOk THEN "loop" ELSE "threw"
    /\ UNCHANGED <<un, ui, ucommitted, ufailed>>
    /\ UNCHANGED <<runVars, regVars, embVars, batVars, tktVars, extVars>>
    /\ UNCHANGED <<vecVars, stVars, pgVars, audVars>>

\* An upsert loop that logs a failed batch and goes on with the next one.
BatchFailed_Continue ==
    /\ ufailed' = ui \div UpsertBatchSize + 1
    /\ ui' = ui + UpsertBatchSize
    /\ UNCHANGED <<upc, ucommitted>>

\* await index.upsert(batch) rejects: nothing catches it in upsertVectors
BatchFailed ==
    /\ ufailed' = ui \div UpsertBatchSize + 1
    /\ upc' = "threw"
    /\ UNCHANGED <<ui, ucommitted>>

\* for (let i = 0; i < vectors.length; i += batchSize) {
\*   const batch = vectors.slice(i, i + batchSize); await index.upsert(batch) }
UpsertOneBatch ==
    /\ upc = "loop"
    /\ ui < un
    /\ \E ok \in BOOLEAN :
         IF ok
         THEN /\ ucommitted' = Append(ucommitted,
                     [lo |-> ui + 1, hi |-> Min(ui + UpsertBatchSize, un)])
              /\ ui' = ui + UpsertBatchSize
              /\ UNCHANGED <<upc, ufailed>>
         ELSE BatchFailed
    /\ UNCHANGED un
    /\ UNCHANGED <<runVars, regVars, embVars, batVars, tktVars, extVars>>
    /\ UNCHANGED <<vecVars, stVars, pgVars, audVars>>

\* the loop condition fails: upsertVectors returns
UpsertReturn ==
    /\ upc = "loop"
    /\ ui >= un
    /\ upc' = "returned"
    /\ UNCHANGED <<un, ui, ucommitted, ufailed>>
    /\ UNCHANGED <<runVars, regVars, embVars, batVars, tktVars, extVars>>
    /\ UNCHANGED <<vecVars, stVars, pgVars, audVars>>

(***************************************************************************)
(* server.js, pinecone.js, zendesk.js: process start                       *)
(***************************************************************************)
MaxRequests == 2

\* fieldsToCreate of createCustomObjectType and createErrorCustomObjectType
FieldKeys(key) ==
    IF key = "kb_import_log_v3"
    THEN {"import_date", "start_date", "end_date", "ticket_count", "source"}
    ELSE {"error_date", "start_date", "end_date", "error_message",
          "error_details", "source"}

\* what Zendesk holds before the process starts: a type is absent, present
\* without fields, or present with all its fields
SchemaStates ==
    {z \in [objects : SUBSET ObjectKeys,
            fields : [ObjectKeys -> UNION {{{}, FieldKeys(k)} : k \in ObjectKeys}]] :
        \A k \in ObjectKeys :
            /\ z.fields[k] \in {{}, FieldKeys(k)}
            /\ (k \notin z.objects => z.fields[k] = {})}

Endpoints == {"auto-import-tickets", "import-file", "ingest-kb"}

InitStartup ==
    /\ pineconeKey \in BOOLEAN
    /\ openaiKey \in BOOLEAN
    /\ zendeskEnv \in BOOLEAN
    /\ indexDimension \in {0, DIMENSION, EmbeddingDimension}
    /\ created = <<>>
    /\ spc = "load"
    /\ attempts = 0
    /\ verified = FALSE
    /\ \E z \in SchemaStates : zObjects = z.objects /\ zFields = z.fields
    /\ served = 0
    /\ lastResponse = [endpoint |-> "none", code |-> 0]

\* the imports of server.js run the config modules: pinecone.js exits without
\* PINECONE_API_KEY, zendesk.js only warns, embedding.js checks nothing
LoadModules ==
    /\ spc = "load"
    /\ spc' = IF pineconeKey THEN "index" ELSE "exited"
    /\ UNCHANGED <<pineconeKey, openaiKey, zendeskEnv, indexDimension, created,
                   attempts, verified, zObjects, zFields, served, lastResponse>>
    /\ UNCHANGED <<runVars, regVars, embVars, batVars, tktVars, extVars>>
    /\ UNCHANGED <<vecVars, upsVars, pgVars, audVars>>

\* await initializeIndex() up to the wait loop; whatever it throws ends in
\* process.exit(1) in startServer
InitializeIndex ==
    /\ spc = "index"
    /\ \E listOk \in BOOLEAN :
         IF ~listOk
         THEN spc' = "exited" /\ UNCHANGED <<indexDimension, created, verified>>
         ELSE IF indexDimension = 0
         THEN \E createOk \in BOOLEAN :
                IF createOk
                THEN /\ created' = Append(created,
                            [dimension |-> DIMENSION, metric |-> "cosine"])
                     /\ indexDimension' = DIMENSION
                     /\ spc' = "waitReady"
                     /\ UNCHANGED verified
                ELSE spc' = "exited"
                     /\ UNCHANGED <<indexDimension, created, verified>>
         ELSE \E describeOk \in BOOLEAN :
                IF describeOk
                THEN IF indexDimension # DIMENSION
                     THEN spc' = "exited"
                          /\ UNCHANGED <<indexDimension, created, verified>>
                     ELSE spc' = "schema" /\ verified' = TRUE
                          /\ UNCHANGED <<indexDimension, created>>
                ELSE \* console.warn("Could not verify dimension")
                     spc' = "schema"
                     /\ UNCHANGED <<indexDimension, created, verified>>
    /\ UNCHANGED <<pineconeKey, openaiKey, zendeskEnv, attempts, zObjects,
                   zFields, served, lastResponse>>
    /\ UNCHANGED <<runVars, regVars, embVars, batVars, tktVars, extVars>>
    /\ UNCHANGED <<vecVars, upsVars, pgVars, audVars>>

\* while (!ready && attempts < 30) { describeIndex ... }
\* if (!ready) throw new Error("Index creation timeout")
WaitReady ==
    /\ spc = "waitReady"
    /\ IF attempts >= MaxReadyAttempts
       THEN spc' = "exited" /\ UNCHANGED attempts
       ELSE \E ready \in BOOLEAN :
              IF ready
              THEN spc' = "schema" /\ UNCHANGED attempts
              ELSE attempts' = attempts + 1 /\ UNCHANGED spc
    /\ UNCHANGED <<pineconeKey, openaiKey, zendeskEnv, indexDimension, created,
                   verified, zObjects, zFields, served, lastResponse>>
    /\ UNCHANGED <<runVars, regVars, embVars, batVars, tktVars, extVars>>
    /\ UNCHANGED <<vecVars, upsVars, pgVars, audVars>>

\* createCustomObjectType: GET the type, POST it on a 404, then POST each
\* field; a 422 or any other field error is logged and skipped, any other
\* failure makes the function return false
createCustomObjectType ==
    LET key == "kb_import_log_v3"
    IN \E get \in {"found", "404", "error"}, postOk \in BOOLEAN,
          failed \in SUBSET FieldKeys(key) :
         /\ get = "found" => key \in zObjects
         /\ get = "404" => key \notin zObjects
         /\ IF get = "error" \/ (get = "404" /\ ~postOk)
            THEN UNCHANGED <<zObjects, zFields>>
            ELSE /\ zObjects' = zObjects \cup {key}
                 /\ zFields' = [zFields EXCEPT
                                  ![key] = @ \cup (FieldKeys(key) \ failed)]

\* if (ZENDESK_EMAIL && ZENDESK_API_TOKEN && ZENDESK_DOMAIN)
\*   await createCustomObjectType();
\* app.listen(PORT, ...)
SetupAndListen ==
    /\ spc = "schema"
    /\ IF zendeskEnv
       THEN createCustomObjectType
       ELSE UNCHANGED <<zObjects, zFields>>
    /\ spc' = "listening"
    /\ UNCHANGED <<pineconeKey, openaiKey, zendeskEnv, indexDimension, created,
                   attempts, verified, served, lastResponse>>
    /\ UNCHANGED <<runVars, regVars, embVars, batVars, tktVars, extVars>>
    /\ UNCHANGED <<vecVars, upsVars, pgVars, audVars>>

\* One ingestion request, answered by its handler's res.json: the handler's
\* catch turns a missing Zendesk client (auto-import) and a missing
\* OPENAI_API_KEY (any request that embeds a text) into a 500 response.
ServeIngestion ==
    /\ spc = "listening"
    /\ served < MaxRequests
    /\ \E endpoint \in Endpoints, embeds, fails \in BOOLEAN :
         lastResponse' =
            [endpoint |-> endpoint,
             code |-> IF endpoint = "auto-import-tickets" /\ ~zendeskEnv THEN 500
                      ELSE IF embeds /\ ~openaiKey THEN 500
                      ELSE IF fails THEN 500
                      ELSE 200]
    /\ served' = served + 1
    /\ UNCHANGED <<pineconeKey, openaiKey, zendeskEnv, indexDimension, created,
                   spc, attempts, verified, zObjects, zFields>>
    /\ UNCHANGED <<runVars, regVars, embVars, batVars, tktVars, extVars>>
    /\ UNCHANGED <<vecVars, upsVars, pgVars, audVars>>

(***************************************************************************)
(* zendesk.js: fetchTicketsByDateRange                                     *)
(***************************************************************************)
MaxPageSize == 2

\* the tickets before page k, counted
RECURSIVE TicketsBefore(_, _)
TicketsBefore(sizes, k) ==
    IF k <= 1 THEN 0 ELSE sizes[k - 1] + TicketsBefore(sizes, k - 1)

\* the pages of a search result: page k holds response.data.results, the
\* tickets being numbered in the order of the result
SearchResults ==
    UNION { { [k \in 1..n |->
                [i \in 1..sizes[k] |-> TicketsBefore(sizes, k) + i]] :
              sizes \in [1..n -> 0..MaxPageSize] } : n \in 1..MaxPages }

\* outcomes of zendeskClient.get(nextUrl)
PageAnswers == {"ok", "network", "5xx", "429"}

\* the tickets of pages 1..k in order
RECURSIVE PagesUpTo(_, _)
PagesUpTo(pages, k) ==
    IF k = 0 THEN <<>> ELSE PagesUpTo(pages, k - 1) \o pages[k]

InitPages ==
    /\ fcreds \in BOOLEAN
    /\ fpages \in SearchResults
    /\ fpc = "start"
    /\ fnextUrl = 0
    /\ fpage = 0
    /\ fallTickets = <<>>
    /\ frequests = [k \in 1..MaxPages |-> 0]
    /\ flastAnswer = "none"
    /\ ffailedPage = 0

\* const zendeskClient = createZendeskClient(); const allTickets = [];
\* let nextUrl = `/search.json?...`; let page = 1;
CallFetchTickets ==
    /\ fpc = "start"
    /\ IF fcreds
       THEN fpc' = "loop" /\ fnextUrl' = 1 /\ fpage' = 1
       ELSE fpc' = "threw" /\ UNCHANGED <<fnextUrl, fpage>>
    /\ UNCHANGED <<fcreds, fpages, fallTickets, frequests, flastAnswer,
                   ffailedPage>>
    /\ UNCHANGED <<runVars, regVars, embVars, batVars, tktVars, extVars>>
    /\ UNCHANGED <<vecVars, upsVars, stVars, audVars>>

\* A page failure that escapes fetchTicketsByDateRange.
PageFailed_Throw ==
    /\ ffailedPage' = fnextUrl
    /\ fpc' = "threw"
    /\ UNCHANGED <<fallTickets, fnextUrl, fpage>>

\* catch (err) { console.error(`Error fetching page ${page}`); break; }
PageFailed ==
    /\ ffailedPage' = fnextUrl
    /\ fpc' = "break"
    /\ UNCHANGED <<fallTickets, fnextUrl, fpage>>

\* one iteration of while (nextUrl): GET the page; push its results and
\* follow next_page, or break on any failure
FetchPage ==
    /\ fpc = "loop"
    /\ fnextUrl # 0
    /\ frequests' = [frequests EXCEPT ![fnextUrl] = @ + 1]
    /\ \E answer \in PageAnswers :
         /\ flastAnswer' = answer
         /\ IF answer = "ok"
            THEN /\ fallTickets' = fallTickets \o fpages[fnextUrl]
                 /\ fnextUrl' = IF fnextUrl < Len(fpages) THEN fnextUrl + 1 ELSE 0
                 /\ fpage' = fpage + 1
                 /\ UNCHANGED <<fpc, ffailedPage>>
            ELSE PageFailed
    /\ UNCHANGED <<fcreds, fpages>>
    /\ UNCHANGED <<runVars, regVars, embVars, batVars, tktVars, extVars>>
    /\ UNCHANGED <<vecVars, upsVars, stVars, audVars>>

\* the loop is left (nextUrl is null, or break): return allTickets
ReturnTickets ==
    /\ fpc = "break" \/ (fpc = "loop" /\ fnextUrl = 0)
    /\ fpc' = "returned"
    /\ UNCHANGED <<fcreds, fpages, fnextUrl, fpage, fallTickets, frequests,
                   flastAnswer, ffailedPage>>
    /\ UNCHANGED <<runVars, regVars, embVars, batVars, tktVars, extVars>>
    /\ UNCHANGED <<vecVars, upsVars, stVars, audVars>>

(***************************************************************************)
(* zendesk.js: createZendeskImportRecord, createZendeskErrorImportRecord   *)
(***************************************************************************)
NumRecordIds == 3
NameLimit == 50

StartDates == {"2024-01-01", "N/A"}
Sources == {"auto_import", "file_import"}

\* err.message, by its first characters and its length
ErrorMessages == [head : {"m1", "m2"}, len : {NameLimit - 20, NameLimit + 30}]

ImportData ==
    [startDate : StartDates, endDate : {"2024-01-31"},
     ticketCount : 0..MaxTickets, source : Sources]

ErrorData ==
    [startDate : StartDates, endDate : {"2024-01-31"},
     errorMessage : ErrorMessages, source : Sources]

ObjectOf(kind) ==
    IF kind = "success" THEN "kb_import_log_v3" ELSE "kb_import_errors"

\* errorMessage.substring(0, 50)
Substring50(m) == [head |-> m.head, len |-> Min(m.len, NameLimit)]

\* `Import ${today} | ${startDate} to ${endDate} | ${ticketCount} tickets | ${source}`
\* `Error ${today} | ${startDate} to ${endDate} | ${errorMessage.substring(0, 50)}`
recordName(kind, data) ==
    IF kind = "success"
    THEN <<"Import", "today", data.startDate, data.endDate, data.ticketCount,
           data.source>>
    ELSE <<"Error", "today", data.startDate, data.endDate,
           Substring50(data.errorMessage)>>

\* recordPayload: { custom_object_record: { name: recordName } }
recordPayload(kind, data) ==
    [keys |-> {"name"}, name |-> recordName(kind, data), fields |-> {}]

\* updatePayload: { custom_object_record: { custom_object_fields: {...} } }
updatePayload(kind, data) ==
    [keys |-> {"custom_object_fields"}, name |-> <<>>,
     fields |-> FieldKeys(ObjectOf(kind))]

InitAudit ==
    /\ akind \in {"success", "failure"}
    /\ acreds \in BOOLEAN
    /\ adata \in (IF akind = "success" THEN ImportData ELSE ErrorData)
    /\ apc = "start"
    /\ arequests = <<>>
    /\ arecordId = 0
    /\ aplatform = <<>>
    /\ aresult = 0

\* A recorder that goes on to the PATCH after a failed POST.
PostFailed_PatchAnyway ==
    /\ apc' = "posted"
    /\ UNCHANGED <<arecordId, aplatform, aresult>>

\* the POST rejects: catch (err) { console.warn(...); return null; }
PostFailed ==
    /\ apc' = "returned"
    /\ UNCHANGED <<arecordId, aplatform, aresult>>

\* A recorder that answers with the created record whatever the PATCH did.
PatchResult_KeepId(patchOk, id) == id

\* return updateResponse.data.custom_object_record, or null from the catch
PatchResult(patchOk, id) == IF patchOk THEN id ELSE 0

\* createZendeskClient(); Step 1: zendeskClient.post('/custom_objects/<key>/
\* records', recordPayload); recordId = createResponse.data.custom_object_record?.id
AuditPost ==
    /\ apc = "start"
    /\ IF ~acreds
       THEN apc' = "returned"
            /\ UNCHANGED <<arequests, arecordId, aplatform, aresult>>
       ELSE \E id \in 0..NumRecordIds :
              /\ arequests' = Append(arequests,
                     [method |-> "POST", object |-> ObjectOf(akind), target |-> 0,
                      body |-> recordPayload(akind, adata),
                      status |-> IF id # 0 THEN "ok" ELSE "failed"])
              /\ IF id # 0
                 THEN /\ apc' = "posted" /\ arecordId' = id
                      /\ aplatform' = <<[id |-> id,
                                         name |-> recordName(akind, adata),
                                         fields |-> {}]>>
                      /\ UNCHANGED aresult
                 ELSE PostFailed
    /\ UNCHANGED <<akind, acreds, adata>>
    /\ UNCHANGED <<runVars, regVars, embVars, batVars, tktVars, extVars>>
    /\ UNCHANGED <<vecVars, upsVars, stVars, pgVars>>

\* Step 2: zendeskClient.patch(`/custom_objects/<key>/records/${recordId}`,
\* updatePayload); return updateResponse.data.custom_object_record, or null
\* from the catch
AuditPatch ==
    /\ apc = "posted"
    /\ \E patchOk \in BOOLEAN :
         /\ arequests' = Append(arequests,
                [method |-> "PATCH", object |-> ObjectOf(akind),
                 target |-> arecordId, body |-> updatePayload(akind, adata),
                 status |-> IF patchOk THEN "ok" ELSE "failed"])
         /\ aplatform' =
                IF patchOk
                THEN [k \in 1..Len(aplatform) |->
                        IF aplatform[k].id = arecordId
                        THEN [aplatform[k] EXCEPT
                                !.fields = updatePayload(akind, adata).fields]
                        ELSE aplatform[k]]
                ELSE aplatform
         /\ aresult' = PatchResult(patchOk, arecordId)
    /\ apc' = "returned"
    /\ UNCHANGED <<akind, acreds, adata, arecordId>>
    /\ UNCHANGED <<runVars, regVars, embVars, batVars, tktVars, extVars>>
    /\ UNCHANGED <<vecVars, upsVars, stVars, pgVars>>


\* ==========================================================================
\* Enrichment, chunking and embedding of one autoImportTickets run, with the
\* enrichments as calls that are in flight (backend/src/controllers/navbar.js)
\* ==========================================================================

\* const ENRICHMENT_BATCH_SIZE = 10
ENRICHMENT_BATCH_SIZE == 10

\* enrichmentQueue = new PQueue({ concurrency: 3, ... })
EnrichmentConcurrency == 3

EnrichTickets == 1..qn

InFlight == {t \in EnrichTickets : qstatus[t] = "inflight"}

Settled == {t \in EnrichTickets : qstatus[t] \in {"ok", "failed"}}

FailedEnrichments == {t \in EnrichTickets : qstatus[t] = "failed"}

\* The batch of a ticket: tickets.slice(i, i + ENRICHMENT_BATCH_SIZE).
BatchOf(t) == (t - 1) \div ENRICHMENT_BATCH_SIZE

\* chunkTicketData(ticket).length of the ticket, one or two here.
NumChunksOf(t) == 1 + (t % 2)

\* The embedding the provider computes for a chunk.
EmbeddingOf(chunk) == [of |-> chunk]

RECURSIVE SeqOfSet(_)
SeqOfSet(S) ==
    IF S = {} THEN <<>>
    ELSE LET m == CHOOSE x \in S : \A y \in S : x <= y
         IN  <<m>> \o SeqOfSet(S \ {m})

RECURSIVE ChunksOfTickets(_)
\* for (const ticket of enrichedTickets) allChunks.push(...chunks.map(...))
ChunksOfTickets(ts) ==
    IF ts = <<>> THEN <<>>
    ELSE [c \in 1..NumChunksOf(Head(ts)) |->
              [ticketId |-> Head(ts), chunkIndex |-> c - 1]]
         \o ChunksOfTickets(Tail(ts))

\* enrichedTickets.push(enriched)
PushEnriched_Front(list, t) == <<t>> \o list

PushEnriched(list, t) == Append(list, t)

RECURSIVE PushAll(_, _)
\* enrichmentResults.forEach: the fulfilled results, in the order of tickets.
PushAll(list, ts) ==
    IF ts = <<>> THEN list
    ELSE PushAll(PushEnriched(list, Head(ts)), Tail(ts))

\* for (...; i < tickets.length; i += ENRICHMENT_BATCH_SIZE): another batch
LoopContinues(i, n) == i + ENRICHMENT_BATCH_SIZE < n

\* if (i + ENRICHMENT_BATCH_SIZE < tickets.length) await the 500 ms pause
NeedsPause_Never(i, n) == FALSE

NeedsPause(i, n) == i + ENRICHMENT_BATCH_SIZE < n

InitEnrich ==
    /\ qvariant \in {"batched", "queue"}
    /\ qn \in 1..MaxEnrichTickets
    /\ qstatus = [t \in 1..qn |-> "waiting"]
    /\ qpc = "enrich"
    /\ qi = 0 /\ qpauses = 0 /\ qenriched = <<>> /\ qoutOfOrder = FALSE
    /\ qallChunks = <<>> /\ qembeddings = <<>> /\ qvectors = <<>>

\* The next enrichment starts.  Batched handler: the inner for loop awaits
\* each ticket of tickets.slice(i, i + 10) in turn.  Queue handler: the
\* queue starts the tasks in the order they were added, at most 3 at a time.
StartEnrich ==
    /\ qpc = "enrich"
    /\ \E t \in EnrichTickets :
        /\ qstatus[t] = "waiting"
        /\ \A u \in EnrichTickets : u < t => qstatus[u] # "waiting"
        /\ IF qvariant = "batched"
             THEN InFlight = {} /\ t <= qi + ENRICHMENT_BATCH_SIZE
             ELSE Cardinality(InFlight) < EnrichmentConcurrency
        /\ qstatus' = [qstatus EXCEPT ![t] = "inflight"]
    /\ UNCHANGED <<qvariant, qn, qpc, qi, qpauses, qenriched, qoutOfOrder,
                   qallChunks, qembeddings, qvectors>>
    /\ UNCHANGED <<runVars, regVars, embVars, batVars, tktVars>>
    /\ UNCHANGED <<vecVars, upsVars, stVars, pgVars, audVars, schVars>>

\* An enrichment settles.  Batched handler: a success is pushed, a failure
\* is logged; after the last ticket of the batch the loop pauses or ends.
\* Queue handler: the promise settles and the queue may start another task.
SettleEnrich ==
    /\ qpc = "enrich"
    /\ \E t \in InFlight, ok \in BOOLEAN :
        /\ ok \/ Cardinality(FailedEnrichments) < MaxFailedEnrichments
        /\ qstatus' = [qstatus EXCEPT ![t] = IF ok THEN "ok" ELSE "failed"]
        /\ qoutOfOrder' = (qoutOfOrder \/ \E u \in InFlight : u < t)
        /\ IF qvariant = "batched"
             THEN /\ qenriched' = IF ok THEN PushEnriched(qenriched, t)
                                  ELSE qenriched
                  /\ qpc' = IF t < qi + ENRICHMENT_BATCH_SIZE /\ t < qn
                              THEN "enrich"
                            ELSE IF NeedsPause(qi, qn) THEN "pause"
                            ELSE IF LoopContinues(qi, qn) THEN "enrich"
                            ELSE "chunk"
                  /\ qi' = IF (t < qi + ENRICHMENT_BATCH_SIZE /\ t < qn)
                                \/ NeedsPause(qi, qn)
                             THEN qi ELSE qi + ENRICHMENT_BATCH_SIZE
             ELSE UNCHANGED <<qenriched, qpc, qi>>
    /\ UNCHANGED <<qvariant, qn, qpauses, qallChunks, qembeddings, qvectors>>
    /\ UNCHANGED <<runVars, regVars, embVars, batVars, tktVars>>
    /\ UNCHANGED <<vecVars, upsVars, stVars, pgVars, audVars, schVars>>

\* Batched handler: the 500 ms pause between two batches elapses.
PauseElapsed ==
    /\ qpc = "pause"
    /\ qpauses' = qpauses + 1
    /\ qi' = qi + ENRICHMENT_BATCH_SIZE
    /\ qpc' = "enrich"
    /\ UNCHANGED <<qvariant, qn, qstatus, qenriched, qoutOfOrder,
                   qallChunks, qembeddings, qvectors>>
    /\ UNCHANGED <<runVars, regVars, embVars, batVars, tktVars>>
    /\ UNCHANGED <<vecVars, upsVars, stVars, pgVars, audVars, schVars>>

\* Queue handler: Promise.allSettled resolves and forEach collects the
\* fulfilled results in the order of tickets.
CollectEnriched ==
    /\ qpc = "enrich" /\ qvariant = "queue"
    /\ Settled = EnrichTickets
    /\ qenriched' = PushAll(<<>>, SeqOfSet(EnrichTickets \ FailedEnrichments))
    /\ qpc' = "chunk"
    /\ UNCHANGED <<qvariant, qn, qstatus, qi, qpauses, qoutOfOrder,
                   qallChunks, qembeddings, qvectors>>
    /\ UNCHANGED <<runVars, regVars, embVars, batVars, tktVars>>
    /\ UNCHANGED <<vecVars, upsVars, stVars, pgVars, audVars, schVars>>

\* Both handlers: every chunk of every enriched ticket, in list order.
CreateAllChunks ==
    /\ qpc = "chunk"
    /\ qallChunks' = ChunksOfTickets(qenriched)
    /\ qpc' = "embed"
    /\ UNCHANGED <<qvariant, qn, qstatus, qi, qpauses, qenriched, qoutOfOrder,
                   qembeddings, qvectors>>
    /\ UNCHANGED <<runVars, regVars, embVars, batVars, tktVars>>
    /\ UNCHANGED <<vecVars, upsVars, stVars, pgVars, audVars, schVars>>

\* Batched handler: embedTextBatch returns one embedding per text, in the
\* order of the texts, or throws; embeddings.map pairs embeddings[idx] with
\* allChunks[idx].  Queue handler: every task returns its own chunk with its
\* embedding; forEach pushes the fulfilled ones in the order of allChunks.
EmbedAndPrepare ==
    /\ qpc = "embed"
    /\ IF qvariant = "batched"
         THEN \E threw \in BOOLEAN :
                IF threw
                  THEN /\ qpc' = "threw"
                       /\ UNCHANGED <<qembeddings, qvectors>>
                  ELSE /\ qembeddings' =
                              [k \in 1..Len(qallChunks) |->
                                   EmbeddingOf(qallChunks[k])]
                       /\ qvectors' =
                              [k \in 1..Len(qallChunks) |->
                                   [chunk |-> qallChunks[k],
                                    values |-> qembeddings'[k]]]
                       /\ qpc' = "done"
         ELSE \E rejected \in SUBSET (1..Len(qallChunks)) :
                /\ Cardinality(rejected) <= MaxFailedEnrichments
                /\ qvectors' =
                       [k \in 1..(Len(qallChunks) - Cardinality(rejected)) |->
                          LET idx == SeqOfSet((1..Len(qallChunks)) \ rejected)[k]
                          IN  [chunk |-> qallChunks[idx],
                               values |-> EmbeddingOf(qallChunks[idx])]]
                /\ qpc' = "done"
                /\ UNCHANGED qembeddings
    /\ UNCHANGED <<qvariant, qn, qstatus, qi, qpauses, qenriched, qoutOfOrder,
                   qallChunks>>
    /\ UNCHANGED <<runVars, regVars, embVars, batVars, tktVars>>
    /\ UNCHANGED <<vecVars, upsVars, stVars, pgVars, audVars, schVars>>

NextEnrich ==
    \/ StartEnrich
    \/ SettleEnrich
    \/ PauseElapsed
    \/ CollectEnriched
    \/ CreateAllChunks
    \/ EmbedAndPrepare

\* ==========================================================================
\* Runs of the schema setup of one audit object type: createCustomObjectType
\* and createErrorCustomObjectType (backend/src/config/zendesk.js)
\* ==========================================================================

\* const fieldsToCreate = [...], in the order of the loop.
fieldsToCreate(key) ==
    IF key = "kb_import_log_v3"
    THEN <<"import_date", "start_date", "end_date", "ticket_count", "source">>
    ELSE <<"error_date", "start_date", "end_date", "error_message",
           "error_details", "source">>

\* The status Zendesk answers to a field-create call.
FieldStatus(exists, fails) ==
    IF fails THEN 500 ELSE IF exists THEN 422 ELSE 201

\* catch (fieldErr): both branches log, neither rethrows.
FieldErrorPropagates_422(status) == status = 422

FieldErrorPropagates(status) == FALSE

\* The calls of the field loop that are issued: up to the first one whose
\* error leaves the loop.
IssuedFieldPosts(key, fields, failing) ==
    LET fs == fieldsToCreate(key)
        status(k) == FieldStatus(fs[k] \in fields, fs[k] \in failing)
        stops(k) == status(k) # 201 /\ FieldErrorPropagates(status(k))
    IN  {k \in 1..Len(fs) : \A j \in 1..(k - 1) : ~stops(j)}

LoopThrows(key, fields, failing) ==
    LET fs == fieldsToCreate(key)
    IN  \E k \in IssuedFieldPosts(key, fields, failing) :
            LET st == FieldStatus(fs[k] \in fields, fs[k] \in failing)
            IN  st # 201 /\ FieldErrorPropagates(st)

\* clast before the first run.
NoRun ==
    [get |-> "none", posted |-> FALSE, fieldPosts |-> {}, absorbed |-> {},
     ret |-> FALSE, existed |-> FALSE, before |-> {}]

InitSchema ==
    /\ ckey \in ObjectKeys
    /\ cexists \in BOOLEAN
    /\ cfields \in SUBSET FieldKeys(ckey)
    /\ ~cexists => cfields = {}
    /\ cruns = 0
    /\ clast = NoRun

\* One run of the setup.  creds: the three ZENDESK_* variables are set;
\* getFails, postFails: the GET or the POST of the object fails with a
\* status other than 404; failing: field-create calls that fail with a
\* status other than 422.
SetupObjectType ==
    /\ cruns < MaxSetupRuns
    /\ cruns' = cruns + 1
    /\ \E creds \in BOOLEAN, getFails \in BOOLEAN, postFails \in BOOLEAN,
          failing \in SUBSET FieldKeys(ckey) :
        LET fs == fieldsToCreate(ckey)
            get == IF ~creds THEN "none"
                   ELSE IF getFails THEN "error"
                   ELSE IF cexists THEN "found" ELSE "404"
            posted == get = "404"
            objCreated == posted /\ ~postFails
            loop == get = "found" \/ objCreated
            issued == IF loop THEN IssuedFieldPosts(ckey, cfields, failing)
                      ELSE {}
            answered(k) == FieldStatus(fs[k] \in cfields, fs[k] \in failing)
        IN  /\ getFails => creds
            /\ postFails => get = "404"
            /\ failing # {} => loop
            /\ cexists' = (cexists \/ objCreated)
            /\ cfields' = cfields \cup
                   {fs[k] : k \in {j \in issued : answered(j) = 201}}
            /\ clast' = [get |-> get,
                         posted |-> posted,
                         fieldPosts |-> {fs[k] : k \in issued},
                         absorbed |-> {fs[k] : k \in
                                         {j \in issued : answered(j) = 422}},
                         ret |-> loop /\ ~LoopThrows(ckey, cfields, failing),
                         existed |-> cexists,
                         before |-> cfields]
    /\ UNCHANGED ckey
    /\ UNCHANGED <<runVars, regVars, embVars, batVars, tktVars>>
    /\ UNCHANGED <<vecVars, upsVars, stVars, pgVars, audVars, enrVars>>

NextSchema ==
    SetupObjectType
(***************************************************************************)
(* Specifications                                                          *)
(***************************************************************************)
\* the components a specification leaves alone stay in these states
IdleRun ==
    /\ variant = "batched" /\ mode = "standard" /\ dates = "valid"
    /\ credentials = TRUE /\ pc = "idle" /\ tickets = <<>> /\ enrichIdx = 0
    /\ enrichedTickets = <<>> /\ allChunks = <<>> /\ embedIdx = 0
    /\ embedFailures = 0 /\ vectors = <<>> /\ upIdx = 0 /\ written = <<>>
    /\ commentFetches = 0 /\ embedCalls = 0 /\ auditLog = <<>>
    /\ customRecord = 0 /\ errorRecord = 0 /\ thrownAt = "none"
    /\ response = NoResponse /\ nResponses = 0

IdleRegistry ==
    /\ zendeskCreds = TRUE
    /\ formFieldsCache = NullCache
    /\ cpc = [p \in Callers |-> "idle"]
    /\ fieldsMap = [p \in Callers |-> {}]
    /\ page = [p \in Callers |-> 0]
    /\ io = [p \in Callers |-> 0]
    /\ ret = [p \in Callers |-> {}]

IdleEmbed ==
    /\ apiKey = TRUE
    /\ embeddingCache = [k \in CacheKeys |-> 0]
    /\ ecalls = 0 /\ epc = "idle" /\ earg = CHOOSE t \in Texts : TRUE
    /\ etext = Truncate(earg) /\ attempt = 0 /\ requests = 0
    /\ lastStatus = "none" /\ lastHeader = [kind |-> "absent", secs |-> 0]
    /\ lastAttempt = 0 /\ lastSleep = 0 /\ lastPause = 0 /\ errKind = "none"
    /\ evector = 0 /\ clears = 0 /\ returns = <<>>

IdleBatch ==
    /\ bvariant = "sequential" /\ btexts = <<>> /\ bpc = "idle" /\ bi = 0
    /\ embeddings = <<>> /\ results = <<>> /\ pending = {} /\ bcalls = 0
    /\ produced = <<>> /\ bfailedAt = 0 /\ bret = <<>>
    /\ hpc = "embedding" /\ bupserted = <<>>

IdleTicket ==
    /\ traw = RawTicket(1, "ok", <<>>, <<>>, TRUE) /\ tpc = "fetched"
    /\ tenriched = <<>> /\ tchunks = <<>>

IdleFields ==
    /\ mfields = <<>> /\ mfieldsMap = RunFieldsMap /\ mpc = "idle"
    /\ mapped = <<>>

IdleVectors ==
    /\ vsource = "auto" /\ vtickets = <<>> /\ vpc = "idle"
    /\ vallChunks = <<>> /\ vtimestamp = 0 /\ vvectors = <<>>

IdleUpsert ==
    /\ un = 0 /\ upc = "idle" /\ ui = 0 /\ ucommitted = <<>> /\ ufailed = 0

IdleStartup ==
    /\ pineconeKey = TRUE /\ openaiKey = TRUE /\ zendeskEnv = TRUE
    /\ indexDimension = 0 /\ created = <<>> /\ spc = "idle" /\ attempts = 0
    /\ verified = FALSE /\ zObjects = {} /\ zFields = [k \in ObjectKeys |-> {}]
    /\ served = 0 /\ lastResponse = [endpoint |-> "none", code |-> 0]

IdlePages ==
    /\ fcreds = TRUE /\ fpages = <<>> /\ fpc = "idle" /\ fnextUrl = 0
    /\ fpage = 0 /\ fallTickets = <<>> /\ frequests = [k \in 1..MaxPages |-> 0]
    /\ flastAnswer = "none" /\ ffailedPage = 0

IdleAudit ==
    /\ akind = "success" /\ acreds = TRUE /\ apc = "idle" /\ arequests = <<>>
    /\ aplatform = <<>>
    /\ adata = [startDate |-> "N/A", endDate |-> "N/A", ticketCount |-> 0,
                source |-> "auto_import"]
    /\ arecordId = 0 /\ aresult = 0

IdleEnrich ==
    /\ qvariant = "batched" /\ qn = 0 /\ qstatus = <<>> /\ qpc = "idle"
    /\ qi = 0 /\ qpauses = 0 /\ qenriched = <<>> /\ qoutOfOrder = FALSE
    /\ qallChunks = <<>> /\ qembeddings = <<>> /\ qvectors = <<>>

IdleSchema ==
    /\ ckey = "kb_import_log_v3" /\ cexists = FALSE /\ cfields = {}
    /\ cruns = 0 /\ clast = NoRun

IdleExt == IdleEnrich /\ IdleSchema

IdleAux == IdleVectors /\ IdleUpsert /\ IdleStartup /\ IdlePages /\ IdleAudit
    /\ IdleExt

\* ---- one autoImportTickets invocation ----
Init == InitRun /\ IdleRegistry /\ IdleEmbed /\ IdleBatch
    /\ IdleTicket /\ IdleFields /\ IdleAux

Next ==
    \/ Validate
    \/ FetchFields
    \/ FetchTickets
    \/ WriteImportRecord
    \/ Enrich
    \/ Chunk
    \/ Embed
    \/ UpsertBatch
    \/ RespondSuccess
    \/ CatchAudit
    \/ RespondError

Spec == Init /\ [][Next]_vars

\* ---- concurrent callers of fetchFormFields ----
InitSpecRegistry == IdleRun /\ InitRegistry /\ IdleEmbed /\ IdleBatch
    /\ IdleTicket /\ IdleFields /\ IdleAux

NextRegistry ==
    \/ \E p \in Callers : CallFetchFormFields(p)
    \/ \E p \in Callers : PageResponse(p)
    \/ \E p \in Callers : NextPage(p)

SpecRegistry == InitSpecRegistry /\ [][NextRegistry]_vars

\* ---- embedText calls, one after the other ----
InitSpecEmbed == IdleRun /\ IdleRegistry /\ InitEmbed /\ IdleBatch
    /\ IdleTicket /\ IdleFields /\ IdleAux

NextEmbed ==
    \/ CallEmbedText
    \/ Attempt
    \/ clearEmbeddingCache

SpecEmbed == InitSpecEmbed /\ [][NextEmbed]_vars

\* ---- one embedTextBatch or embedTextBatchParallel call ----
InitSpecBatch == IdleRun /\ IdleRegistry /\ IdleEmbed /\ InitBatch
    /\ IdleTicket /\ IdleFields /\ IdleAux

NextBatch ==
    \/ CallBatch
    \/ BatchStep
    \/ BatchReturn
    \/ ParallelStart
    \/ ParallelSettle
    \/ ParallelReturn
    \/ ImportAfterBatch

SpecBatch == InitSpecBatch /\ [][NextBatch]_vars

\* ---- one ticket enriched, then chunked ----
InitSpecTicket ==
    IdleRun /\ IdleRegistry /\ IdleEmbed /\ IdleBatch /\ InitTicket /\ IdleFields
    /\ IdleAux

NextTicket ==
    \/ EnrichTicket
    \/ ChunkTicket

SpecTicket == InitSpecTicket /\ [][NextTicket]_vars

\* ---- one mapTicketCustomFields call ----
InitSpecFields ==
    IdleRun /\ IdleRegistry /\ IdleEmbed /\ IdleBatch /\ IdleTicket /\ InitFields
    /\ IdleAux

NextFields == MapTicketFields

SpecFields == InitSpecFields /\ [][NextFields]_vars

\* ---- the vectors of one import run ----
InitSpecVectors ==
    IdleRun /\ IdleRegistry /\ IdleEmbed /\ IdleBatch /\ IdleTicket /\ IdleFields
    /\ InitVectors /\ IdleUpsert /\ IdleStartup /\ IdlePages /\ IdleAudit
    /\ IdleExt

NextVectors ==
    \/ CreateChunks
    \/ PrepareVectors

SpecVectors == InitSpecVectors /\ [][NextVectors]_vars

\* ---- one upsertVectors call ----
InitSpecUpsert ==
    IdleRun /\ IdleRegistry /\ IdleEmbed /\ IdleBatch /\ IdleTicket /\ IdleFields
    /\ IdleVectors /\ InitUpsert /\ IdleStartup /\ IdlePages /\ IdleAudit
    /\ IdleExt

NextUpsert ==
    \/ CallUpsertVectors
    \/ UpsertOneBatch
    \/ UpsertReturn

SpecUpsert == InitSpecUpsert /\ [][NextUpsert]_vars

\* ---- process start and the requests served after it ----
InitSpecStartup ==
    IdleRun /\ IdleRegistry /\ IdleEmbed /\ IdleBatch /\ IdleTicket /\ IdleFields
    /\ IdleVectors /\ IdleUpsert /\ InitStartup /\ IdlePages /\ IdleAudit
    /\ IdleExt

NextStartup ==
    \/ LoadModules
    \/ InitializeIndex
    \/ WaitReady
    \/ SetupAndListen
    \/ ServeIngestion

SpecStartup == InitSpecStartup /\ [][NextStartup]_vars

\* ---- one fetchTicketsByDateRange call ----
InitSpecPages ==
    IdleRun /\ IdleRegistry /\ IdleEmbed /\ IdleBatch /\ IdleTicket /\ IdleFields
    /\ IdleVectors /\ IdleUpsert /\ IdleStartup /\ InitPages /\ IdleAudit
    /\ IdleExt

NextPages ==
    \/ CallFetchTickets
    \/ FetchPage
    \/ ReturnTickets

SpecPages == InitSpecPages /\ [][NextPages]_vars

\* ---- one audit write ----
InitSpecAudit ==
    IdleRun /\ IdleRegistry /\ IdleEmbed /\ IdleBatch /\ IdleTicket /\ IdleFields
    /\ IdleVectors /\ IdleUpsert /\ IdleStartup /\ IdlePages /\ InitAudit
    /\ IdleExt

NextAudit ==
    \/ AuditPost
    \/ AuditPatch

SpecAudit == InitSpecAudit /\ [][NextAudit]_vars


InitSpecEnrich ==
    IdleRun /\ IdleRegistry /\ IdleEmbed /\ IdleBatch /\ IdleTicket /\ IdleFields
    /\ IdleVectors /\ IdleUpsert /\ IdleStartup /\ IdlePages /\ IdleAudit
    /\ InitEnrich /\ IdleSchema

SpecEnrich == InitSpecEnrich /\ [][NextEnrich]_vars

InitSpecSchema ==
    IdleRun /\ IdleRegistry /\ IdleEmbed /\ IdleBatch /\ IdleTicket /\ IdleFields
    /\ IdleVectors /\ IdleUpsert /\ IdleStartup /\ IdlePages /\ IdleAudit
    /\ IdleEnrich /\ InitSchema

SpecSchema == InitSpecSchema /\ [][NextSchema]_vars
(***************************************************************************)
(* Claims about autoImportTickets (checked under Spec)                     *)
(***************************************************************************)
Terminal == pc = "done"

SuccessWrites == {k \in 1..Len(auditLog) : auditLog[k].kind = "success"}
FailureWrites == {k \in 1..Len(auditLog) : auditLog[k].kind = "failure"}

ImportSucceeded ==
    pc = "done" /\ response.status = "Import completed successfully"

\* C1: every invocation that passes validation issues exactly one audit
\* write (a Success or a Failure one, never both), and no audit write is
\* issued before the run is in its terminal state (Done or Failed).
C1_OneAuditRecordAtTerminalState ==
    /\ (Terminal /\ dates # "missing") => Len(auditLog) = 1
    /\ Len(auditLog) > 0 => pc \in {"respondError", "done"}

\* C2: when the run completes, the Success audit record's ticket_count and
\* the result's ticketsProcessed both equal the number of tickets enriched
\* successfully.
C2_TicketCountIsEnrichedCount ==
    ImportSucceeded =>
        /\ response.ticketsProcessed = Len(enrichedTickets)
        /\ \A k \in SuccessWrites :
              auditLog[k].ticketCount = Len(enrichedTickets)

\* C3: an exception of form-field fetching, ticket fetching, chunking,
\* embedding or upserting is followed by exactly one Failure audit write and
\* then by the error envelope; no Failure audit write is made otherwise; a
\* response is sent exactly when the run ends, exactly once, and a run that
\* has not ended can always take its next step.
C3_FailureAuditThenOneResponse ==
    /\ thrownAt \in {"none", "fields", "tickets", "chunk", "embed", "upsert"}
    /\ thrownAt = "none" => FailureWrites = {}
    /\ pc = "catch" => (thrownAt # "none" /\ FailureWrites = {} /\ nResponses = 0)
    /\ pc = "respondError" => (Cardinality(FailureWrites) = 1 /\ nResponses = 0)
    /\ (Terminal /\ thrownAt # "none") =>
          /\ Cardinality(FailureWrites) = 1
          /\ auditLog[Len(auditLog)].kind = "failure"
          /\ response.code = 500
          /\ response.status = "Auto-import failed"
          /\ response.recordId = errorRecord
    /\ nResponses = (IF Terminal THEN 1 ELSE 0)
    /\ Terminal => response # NoResponse
    /\ ~Terminal => ENABLED Next

\* C3 witness: an embedding failure has ended in the error envelope.
C3_Witness ==
    /\ Terminal /\ thrownAt = "embed" /\ response.code = 500
    /\ Cardinality(FailureWrites) = 1

\* C4: a run whose ticket fetch returned no ticket fetches no comments, calls
\* no embedding, upserts nothing, issues exactly one audit write, a Success
\* one with ticket_count 0 (stored with its fields when POST and PATCH
\* succeed), and answers "No tickets found in date range" with
\* ticketsProcessed 0 and totalChunks 0.
C4_ZeroTickets ==
    (dates = "valid" /\ thrownAt = "none" /\ Len(tickets) = 0
        /\ pc \notin {"idle", "fields", "tickets", "audit"}) =>
        /\ Terminal
        /\ commentFetches = 0 /\ embedCalls = 0
        /\ upIdx = 0 /\ written = <<>> /\ vectors = <<>>
        /\ Len(auditLog) = 1
        /\ auditLog[1].kind = "success" /\ auditLog[1].ticketCount = 0
        /\ response.code = 200
        /\ response.status = "No tickets found in date range"
        /\ response.ticketsProcessed = 0 /\ response.totalChunks = 0
        /\ response.recordId = customRecord
        /\ (customRecord # 0 <=> auditLog[1].patched)

\* C4 witness: a zero-ticket run has ended with its record stored.
C4_Witness ==
    /\ Terminal /\ dates = "valid" /\ thrownAt = "none" /\ Len(tickets) = 0
    /\ auditLog[1].posted /\ auditLog[1].patched

\* C5: no exception of an audit write reaches the handler; a write whose POST
\* or PATCH failed yields a null record id; and the outcome of the run is the
\* same with a failed audit write: the success result when nothing else
\* failed, the error envelope when something did.
C5_AuditFailureNeverFailsRun ==
    /\ thrownAt # "audit"
    /\ \A k \in SuccessWrites : ~auditLog[k].patched => customRecord = 0
    /\ \A k \in FailureWrites :
          (~auditLog[k].patched /\ pc \in {"respondError", "done"}) => errorRecord = 0
    /\ (Terminal /\ thrownAt = "none" /\ dates = "valid") =>
          /\ response.code = 200
          /\ response.status = (IF Len(tickets) = 0
                                THEN "No tickets found in date range"
                                ELSE "Import completed successfully")
          /\ response.recordId = customRecord
          /\ written = vectors

\* C5 witness: a run has imported vectors although the PATCH of its import
\* record failed.
C5_Witness ==
    /\ ImportSucceeded /\ Len(written) > 0
    /\ auditLog[1].posted /\ ~auditLog[1].patched
    /\ response.recordId = 0

Loading == {p \in Callers : cpc[p] \in {"get", "sleep"}}

\* C7: at most one paginated load is in flight at any time, and the callers
\* that arrived before any load had completed all receive the same map.
C7_SingleFlight ==
    /\ Cardinality(Loading) <= 1
    /\ \A p, q \in Callers :
          (cpc[p] = "returned" /\ cpc[q] = "returned" /\ io[p] > 0 /\ io[q] > 0)
              => ret[p] = ret[q]

\* the map of a load whose every page was fetched
AllFields == UNION {FieldsOfPage(k) : k \in 1..NumFieldPages}

SuccessfullyLoaded == formFieldsCache.loaded /\ formFieldsCache.fields = AllFields

\* C8: once a successful load has filled the cache, the cached map is never
\* replaced, and every call made from then on returns it without a request.
C8_CacheWriteOnce ==
    [][ /\ SuccessfullyLoaded => formFieldsCache' = formFieldsCache
        /\ \A p \in Callers :
              (SuccessfullyLoaded /\ cpc[p] = "idle" /\ cpc'[p] # "idle") =>
                  /\ cpc'[p] = "returned"
                  /\ ret'[p] = formFieldsCache.fields
                  /\ io'[p] = 0 ]_vars

(***************************************************************************)
(* Claims about embedText (checked under SpecEmbed)                        *)
(***************************************************************************)
RetryableAnswers == {"429", "500", "network", "timeout"}

\* C9: after a 429 the client sleeps retry-after seconds when the header
\* gives them, and the exponential backoff 1 s * 2^attempt when the header is
\* absent.
C9_RetryAfterHonoured ==
    lastStatus = "429" =>
        /\ lastHeader.kind = "seconds" => lastSleep = lastHeader.secs * 1000
        /\ lastHeader.kind = "absent" => lastSleep = 1000 * Pow2(lastAttempt)

\* C10: one embedText call sends at most 5 requests; a call whose last
\* request failed retryably (429, 5xx, network error, timeout) either goes on
\* retrying or has sent all 5 requests and fails with the exhaustion error;
\* it never returns a vector after a failed request, and the exhaustion error
\* is raised only after 5 requests.
C10_FiveAttempts ==
    /\ requests <= 5
    /\ lastStatus \in RetryableAnswers =>
          /\ evector = 0
          /\ epc # "returned"
          /\ epc = "attempt" => requests < 5
          /\ epc = "failed" => (errKind = "exhausted" /\ requests = 5)
    /\ errKind = "exhausted" => (requests = 5 /\ lastStatus \in RetryableAnswers)
    /\ epc = "returned" => (evector # 0 /\ lastStatus \in {"ok", "none"})

\* C10 witness: a call has failed after five retryable failures.
C10_Witness ==
    /\ epc = "failed" /\ errKind = "exhausted" /\ requests = 5
    /\ lastStatus = "500"

\* the failures the client is to retry: HTTP 5xx, network errors, timeouts
TransientAnswers == {"500", "network", "refused", "timeout"}

\* C11: a request that failed with HTTP 5xx, with a network error or with a
\* timeout is followed by the exponential backoff 1 s * 2^attempt, and the
\* call goes on to its next attempt while attempts remain instead of failing.
C11_TransientFailuresRetried ==
    lastStatus \in TransientAnswers =>
        /\ lastSleep = Backoff(lastAttempt)
        /\ errKind # "fatal"
        /\ lastAttempt + 1 < maxRetries => epc = "attempt"

\* the failures that are final: 404, another 4xx but 429, a 200 without an
\* embedding
FatalAnswers == {"404", "400", "malformed"}

\* C12: the request answered 404, another 4xx but 429, or a 200 without an
\* embedding ends the call as failed in the same step, leaves the cache as
\* it was, and the call sends no request after it.
C12_FatalFailuresNotRetried ==
    [][ /\ (requests' = requests + 1 /\ lastStatus' \in FatalAnswers) =>
              /\ epc' = "failed" /\ errKind' = "fatal" /\ evector' = 0
              /\ embeddingCache' = embeddingCache
              /\ returns' = returns
        /\ (lastStatus \in FatalAnswers /\ ecalls' = ecalls) =>
              /\ requests' = requests
              /\ epc' = "failed" ]_vars

\* C12 witness: a call has failed on a 400 answer to its third request, with
\* an entry of an earlier call in the cache.
C12_Witness ==
    /\ lastStatus = "400" /\ epc = "failed" /\ errKind = "fatal"
    /\ requests = 3 /\ CacheSize > 0

C14_CacheKeyedByTruncatedText ==
    [][ /\ (ecalls' = ecalls + 1 /\ apiKey
                /\ embeddingCache[Truncate(earg')] # 0) =>
              /\ epc' = "returned"
              /\ evector' = embeddingCache[Truncate(earg')]
              /\ requests' = 0
              /\ embeddingCache' = embeddingCache
        /\ requests' = requests + 1 => embeddingCache[Truncate(earg)] = 0
        /\ (requests' = requests + 1 /\ lastStatus' = "ok") =>
              /\ epc' = "returned"
              /\ evector' \in Vectors
              /\ embeddingCache' =
                    [embeddingCache EXCEPT ![Truncate(earg)] = evector'] ]_vars

\* C14 witness: a call with a text longer than MAX_CHARS has been served from
\* the entry stored by a call with another text of the same first MAX_CHARS
\* characters.
C14_Witness ==
    /\ Len(returns) = 2 /\ returns[1].text # returns[2].text
    /\ returns[2].text.len > MAX_CHARS
    /\ Truncate(returns[1].text) = Truncate(returns[2].text)
    /\ epc = "returned" /\ requests = 0

(***************************************************************************)
(* Claims about embedTextBatch (checked under SpecBatch)                   *)
(***************************************************************************)
\* C15: a batch that returns, returns one vector per input text, the i-th
\* being the vector embedText returned for the i-th text; a batch fails
\* exactly when the embedding of one of its texts failed, nothing is returned
\* then, and embedTextBatch fails on the first such text without calling
\* embedText for a later one.
C15_BatchAllOrNothing ==
    /\ bpc = "returned" =>
          /\ Len(bret) = Len(btexts)
          /\ \A i \in 1..Len(btexts) : produced[i] # 0 /\ bret[i] = produced[i]
          /\ bfailedAt = 0
    /\ bpc = "failed" =>
          /\ bfailedAt \in 1..Len(btexts) /\ bret = <<>>
          /\ produced[bfailedAt] = 0
          /\ bvariant = "sequential" =>
                /\ bcalls = bfailedAt
                /\ \A i \in 1..(bfailedAt - 1) : produced[i] # 0
    /\ (bpc = "loop" /\ bvariant = "sequential") =>
          \A i \in 1..bi : produced[i] # 0
    /\ bpc \in {"idle", "loop"} => bret = <<>>

\* C15 witness: a batch of three texts has returned vectors that are not all
\* the same.
C15_Witness ==
    /\ bpc = "returned" /\ Len(btexts) = 3
    /\ bret[1] # bret[2]

(***************************************************************************)
(* Claims about enrichTicketWithComments and chunkTicketData (checked      *)
(* under SpecTicket) and mapTicketCustomFields (under SpecFields)          *)
(***************************************************************************)
Enriched == tpc \in {"enriched", "chunked", "chunkThrew"}

\* C16: an enriched ticket whose conversation has no public Agent message
\* with a non-whitespace body has a null resolution.
C16_NoPublicAgentMessageNoResolution ==
    Enriched =>
        LET e == tenriched[1]
        IN (~\E i \in 1..Len(e.conversation) :
                /\ e.conversation[i].author = "Agent"
                /\ e.conversation[i].public
                /\ Trim(e.conversation[i].message) # "")
           => e.resolution = null

\* C17: a non-null resolution is the message of a conversation entry with
\* role Agent and a non-whitespace body after which no entry with role Agent
\* and a non-whitespace body follows; the conversation has one entry per
\* comment, in order, with role Customer exactly when the comment's author
\* id is the ticket's requester id.
C17_ResolutionIsLastAgentMessage ==
    Enriched =>
        LET e == tenriched[1]
            cs == fetchTicketComments(traw)
        IN /\ Len(e.conversation) = Len(cs)
           /\ \A i \in 1..Len(cs) :
                 /\ e.conversation[i].author \in {"Customer", "Agent"}
                 /\ e.conversation[i].author = "Customer"
                       <=> cs[i].author_id = traw.requester_id
                 /\ e.conversation[i].message = cs[i].body
           /\ e.resolution # null =>
                 \E i \in 1..Len(e.conversation) :
                    /\ e.conversation[i].author = "Agent"
                    /\ Trim(e.conversation[i].message) # ""
                    /\ e.resolution = e.conversation[i].message
                    /\ \A j \in (i + 1)..Len(e.conversation) :
                          ~(/\ e.conversation[j].author = "Agent"
                            /\ Trim(e.conversation[j].message) # "")

\* C17 witness: a ticket with two agent messages has been enriched and its
\* resolution is the second one.
C17_Witness ==
    /\ Enriched /\ Len(tenriched[1].conversation) = 2
    /\ tenriched[1].conversation[1].author = "Agent"
    /\ tenriched[1].conversation[1].message = "a"
    /\ tenriched[1].conversation[2].author = "Agent"
    /\ tenriched[1].conversation[2].message = "b"
    /\ tenriched[1].resolution = "b"

\* the (field-id, value) pairs of the ticket with a value that is neither
\* null nor empty
LiveFields == {i \in 1..Len(mfields) : mfields[i].value \notin {null, ""}}

\* the entry the projection is to emit for pair i
ExpectedEntry(i) ==
    IF mfields[i].id \in DOMAIN mfieldsMap
    THEN [name |-> mfieldsMap[mfields[i].id].title,
          value |-> mfields[i].value,
          type |-> mfieldsMap[mfields[i].id].type,
          key |-> mfieldsMap[mfields[i].id].key,
          description |-> mfieldsMap[mfields[i].id].description]
    ELSE [name |-> "Field_" \o ToString(mfields[i].id),
          value |-> mfields[i].value,
          type |-> "unknown", key |-> "", description |-> ""]

\* C18: the map returned by mapTicketCustomFields has exactly one entry for
\* each pair with a value that is neither null nor empty, the entry the
\* registry (or the Field_<id> fallback) gives it, and no other entry.
C18_OneEntryPerLiveField ==
    mpc = "mapped" =>
        /\ Len(mapped) = Cardinality(LiveFields)
        /\ \A i \in LiveFields :
              \E k \in 1..Len(mapped) : mapped[k] = ExpectedEntry(i)
        /\ \A k \in 1..Len(mapped) :
              \E i \in LiveFields : mapped[k] = ExpectedEntry(i)

\* The chunk size limit of the chunker.  The code sets none; this is the
\* largest value the limit may take, the limit of the embedding client.
MaxChunkChars == MAX_CHARS

ConversationChunks ==
    SelectSeq(tchunks, LAMBDA c : c.type = "conversation")

\* C19: a conversation whose serialization is longer than MaxChunkChars comes
\* out as at least two conversation chunks, the k-th of N ending with
\* "[Part k/N]".
C19_LongConversationSplit ==
    (tpc = "chunked" /\ TextLen(conversationText(tenriched[1])) > MaxChunkChars)
        => /\ Len(ConversationChunks) >= 2
           /\ \A k \in 1..Len(ConversationChunks) :
                 ConversationChunks[k].text[Len(ConversationChunks[k].text)]
                    = "[Part " \o ToString(k) \o "/"
                        \o ToString(Len(ConversationChunks)) \o "]"

\* C20: no chunk of chunkTicketData is longer than MaxChunkChars, so that no
\* chunk is cut by embedText.
C20_ChunksWithinLimit ==
    tpc = "chunked" =>
        \A k \in 1..Len(tchunks) :
            /\ TextLen(tchunks[k].text) <= MaxChunkChars
            /\ TextLen(tchunks[k].text) <= MAX_CHARS

\* the types of the chunks, in the order emitted
ChunkTypes == [k \in 1..Len(tchunks) |-> tchunks[k].type]

\* C21: the chunks come in the order overview, conversation, resolution,
\* custom fields; the overview is always there and each of the others exactly
\* when the conversation is non-empty, the resolution is non-null, the
\* custom-field map is non-empty; a ticket with none of them has one chunk.
C21_ChunkOrderAndPresence ==
    tpc = "chunked" =>
        LET e == tenriched[1]
        IN /\ ChunkTypes =
                 <<"ticket_overview">>
                 \o (IF Len(e.conversation) > 0 THEN <<"conversation">> ELSE <<>>)
                 \o (IF e.resolution # null THEN <<"resolution">> ELSE <<>>)
                 \o (IF Len(e.custom_fields) > 0 THEN <<"custom_fields">> ELSE <<>>)
           /\ (Len(e.conversation) = 0 /\ e.resolution = null
                 /\ Len(e.custom_fields) = 0) => Len(tchunks) = 1
           /\ tchunks = chunkTicketData(e)

\* C21 witness: a ticket with a customer message and a custom field but no
\* resolution has been chunked into overview, conversation, custom fields.
C21_Witness ==
    /\ tpc = "chunked"
    /\ ChunkTypes = <<"ticket_overview", "conversation", "custom_fields">>

\* C22: the text of every chunk holds the identifier of its ticket, and the
\* ticket_id of the chunk's metadata is that identifier.
C22_ChunksNameTheirTicket ==
    tpc = "chunked" =>
        \A k \in 1..Len(tchunks) :
            /\ tchunks[k].ticket_id = tenriched[1].ticket_id
            /\ \E i \in 1..Len(tchunks[k].text) :
                  tchunks[k].text[i] = ToString(tenriched[1].ticket_id)

\* C22 witness: a ticket has been chunked into all four chunks.
C22_Witness ==
    /\ tpc = "chunked" /\ Len(tchunks) = 4
    /\ tenriched[1].ticket_id = SampleTicketId

(***************************************************************************)
(* Claims about the vector identifiers (checked under SpecVectors)         *)
(***************************************************************************)
\* C23: the vectors one import run hands to the vector store have pairwise
\* distinct identifiers: no two of them share the pair (ticket id, chunk
\* index), and all of them carry the one timestamp of the run.
C23_VectorIdsDistinct ==
    vpc = "prepared" =>
        /\ \A i, j \in 1..Len(vvectors) :
              i # j =>
                /\ vvectors[i] # vvectors[j]
                /\ <<vvectors[i].ticketId, vvectors[i].chunkIndex>>
                       # <<vvectors[j].ticketId, vvectors[j].chunkIndex>>
        /\ \A i \in 1..Len(vvectors) : vvectors[i].timestamp = vtimestamp

(***************************************************************************)
(* Claims about upsertVectors (checked under SpecUpsert)                   *)
(***************************************************************************)
\* the k-th slice of the input: vectors (k-1)*100+1 .. min(k*100, n)
ExpectedBatch(k) ==
    [lo |-> (k - 1) * UpsertBatchSize + 1, hi |-> Min(k * UpsertBatchSize, un)]

\* C24: upsertVectors writes consecutive batches of at most 100 vectors in
\* input order; when the write of batch k fails the call throws, exactly the
\* batches 1..k-1 are committed and nothing is written after; when no write
\* fails the call returns with every vector written.
C24_SequentialBatches ==
    /\ \A k \in 1..Len(ucommitted) :
          /\ ucommitted[k] = ExpectedBatch(k)
          /\ ucommitted[k].lo <= ucommitted[k].hi
          /\ ucommitted[k].hi - ucommitted[k].lo + 1 <= UpsertBatchSize
    /\ ufailed # 0 => upc = "threw" /\ Len(ucommitted) = ufailed - 1
    /\ upc = "returned" =>
          /\ ufailed = 0
          /\ (un = 0 => ucommitted = <<>>)
          /\ (un > 0 => ucommitted # <<>> /\ ucommitted[Len(ucommitted)].hi = un)

\* the third batch failed after two batches of 100 were committed
C24_Witness ==
    /\ upc = "threw" /\ ufailed = 3 /\ Len(ucommitted) = 2
    /\ ucommitted[2] = [lo |-> 101, hi |-> 200]

(***************************************************************************)
(* Claims about process start (checked under SpecStartup)                  *)
(***************************************************************************)
\* C25: the server listens only over an index of dimension DIMENSION, so an
\* index of another dimension ends startup; a missing index is created with
\* dimension DIMENSION and metric cosine; and the server listens only after
\* the dimension was verified or the index was created.
C25_IndexEnsuredBeforeListening ==
    /\ spc = "listening" => indexDimension = DIMENSION
    /\ \A k \in 1..Len(created) :
          created[k] = [dimension |-> DIMENSION, metric |-> "cosine"]
    /\ spc = "listening" => verified \/ created # <<>>

\* C26: with the Zendesk credentials present, once the server listens both
\* audit custom-object types exist, each with all of its fields.
C26_SchemaEnsuredBeforeListening ==
    spc = "listening" /\ zendeskEnv =>
        \A k \in ObjectKeys : k \in zObjects /\ zFields[k] = FieldKeys(k)

\* C27: without Zendesk credentials every ingestion request is answered
\* with a response and the process keeps serving; without the embedding
\* key or the vector-store key the process never gets to listen and serves
\* no request.
C27_CredentialHandling ==
    /\ served > 0 /\ ~zendeskEnv =>
          spc = "listening" /\ lastResponse.code \in {200, 400, 500}
    /\ ~pineconeKey \/ ~openaiKey => spc # "listening" /\ served = 0

(***************************************************************************)
(* Claims about fetchTicketsByDateRange (checked under SpecPages)          *)
(***************************************************************************)
\* attempts the specification allows a Zendesk request
ZendeskMaxAttempts == maxRetries

\* C28: a Zendesk request that fails with a network error or a 5xx is given
\* up only after 5 attempts, and one answered 429 is tried again after the
\* sleep; stated for the search pages.
C28_ZendeskRequestsRetried ==
    ffailedPage # 0 =>
        IF flastAnswer = "429"
        THEN frequests[ffailedPage] >= 2
        ELSE frequests[ffailedPage] = ZendeskMaxAttempts

\* C29: when the GET of page k fails, fetchTicketsByDateRange stops paging
\* and returns the tickets of pages 1..k-1 in order without throwing; when
\* no GET fails it follows next_page to the last page and returns the
\* tickets of all pages in order.
C29_PageFailureTruncates ==
    /\ ffailedPage # 0 =>
          /\ fpc \in {"break", "returned"}
          /\ \A k \in 1..MaxPages : k > ffailedPage => frequests[k] = 0
          /\ fpc = "returned" => fallTickets = PagesUpTo(fpages, ffailedPage - 1)
    /\ fpc = "returned" /\ ffailedPage = 0 =>
          fallTickets = PagesUpTo(fpages, Len(fpages))
    /\ fpc = "threw" => ~fcreds /\ ffailedPage = 0

\* the second of three pages failed and the tickets of the first came back
C29_Witness ==
    /\ fpc = "returned" /\ ffailedPage = 2 /\ Len(fpages) = MaxPages
    /\ fallTickets = fpages[1] /\ fallTickets # <<>> /\ fpages[3] # <<>>

(***************************************************************************)
(* Claims about the audit recorders (checked under SpecAudit)              *)
(***************************************************************************)
\* C30: an audit write issues its PATCH only as the second request, after a
\* POST that succeeded, and addressed to the record id that POST answered
\* with; the POST body carries the synthesized name and nothing else; when
\* the POST fails no PATCH is issued.
C30_PostThenPatch ==
    /\ \A i \in 1..Len(arequests) :
          /\ arequests[i].method = "POST" =>
                /\ i = 1
                /\ arequests[i].body.keys = {"name"}
                /\ arequests[i].body.name = recordName(akind, adata)
                /\ arequests[i].body.fields = {}
          /\ arequests[i].method = "PATCH" =>
                /\ i = 2
                /\ arequests[1].method = "POST"
                /\ arecordId # 0
                /\ arequests[i].target = arecordId
                /\ arequests[i].object = arequests[1].object
                /\ arequests[i].body.fields = FieldKeys(ObjectOf(akind))
    /\ apc = "returned" /\ arecordId = 0 => Len(arequests) <= 1
    /\ aresult # 0 => Len(arequests) = 2 /\ aresult = arecordId

\* a failure record was created as record 2 and then patched
C30_Witness ==
    /\ akind = "failure" /\ apc = "returned" /\ Len(arequests) = 2
    /\ arequests[2].method = "PATCH" /\ arequests[2].target = 2
    /\ aresult = 2

(***************************************************************************)
(* Claims about the title keys of mapTicketCustomFields (SpecFields)       *)
(***************************************************************************)
\* C38: the map mapTicketCustomFields returns has as many entries as the
\* ticket has custom fields with a value that is neither null nor empty,
\* whatever titles the descriptors carry: no entry overwrites another.
C38_NoEntryOverwritten ==
    mpc = "mapped" => Len(mapped) = Cardinality(LiveFields)

\* C37: when the POST of an audit write succeeds and its PATCH fails, the
\* recorder returns null while the record the POST created stays in Zendesk
\* with its name and no field; the recorder issues no second PATCH and no
\* DELETE.
C37_FailedPatchLeavesBareRecord ==
    /\ Len(arequests) <= 2
    /\ \A i \in 1..Len(arequests) : arequests[i].method \in {"POST", "PATCH"}
    /\ apc = "returned" /\ Len(arequests) = 2 /\ arequests[2].status = "failed" =>
          /\ arequests[1].status = "ok"
          /\ aresult = 0
          /\ aplatform = <<[id |-> arecordId, name |-> recordName(akind, adata),
                            fields |-> {}]>>

\* the PATCH of a success record failed after its POST created record 1
C37_Witness ==
    /\ akind = "success" /\ apc = "returned" /\ Len(arequests) = 2
    /\ arequests[1].status = "ok" /\ arequests[2].status = "failed"
    /\ arecordId = 1 /\ aresult = 0 /\ aplatform # <<>>

(***************************************************************************)
(* Claims about the text embedText transmits (checked under SpecEmbed)     *)
(***************************************************************************)
\* C34: the text embedText sends to the provider and uses as cache key is at
\* most 7000 characters long, truncation marker included; a longer input is
\* cut and marked, an input within the limit is sent unchanged.
C34_TransmittedTextWithinLimit ==
    requests > 0 =>
        /\ etext.len <= MAX_CHARS
        /\ earg.len <= MAX_CHARS => etext = earg
        /\ earg.len > MAX_CHARS => etext.marked /\ etext.prefix = earg.prefix

(***************************************************************************)
(* Claims about a failed field-schema load (checked under SpecRegistry)    *)
(***************************************************************************)
\* the cache holds the map of a load that a failed page cut short
PartiallyLoaded == formFieldsCache.loaded /\ formFieldsCache.fields # AllFields

\* C36: a load whose page request fails stops paging and caches the map it
\* has collected so far; from then on that partial map stays in the cache
\* and every later call returns it without a request; a call that fails
\* before its first request leaves the cache as it was.
C36_PartialMapCachedForGood ==
    [][ /\ \A p \in Callers :
              (cpc[p] = "get" /\ cpc'[p] = "returned"
                   /\ fieldsMap'[p] = fieldsMap[p]) =>
                  /\ formFieldsCache' = [loaded |-> TRUE, fields |-> fieldsMap[p]]
                  /\ ret'[p] = fieldsMap[p]
        /\ PartiallyLoaded => formFieldsCache' = formFieldsCache
        /\ \A p \in Callers :
              (PartiallyLoaded /\ cpc[p] = "idle" /\ cpc'[p] # "idle") =>
                  /\ cpc'[p] = "returned"
                  /\ ret'[p] = formFieldsCache.fields
                  /\ io'[p] = 0
        /\ \A p \in Callers :
              cpc'[p] = "threw" /\ cpc[p] # "threw" =>
                  formFieldsCache' = formFieldsCache ]_vars

(***************************************************************************)
(* Claims about the handler around embedTextBatch (checked under SpecBatch)*)
(***************************************************************************)
\* C35: the batched import writes vectors only when every text of the run
\* was embedded; when the embedding of a text fails it writes none, and the
\* vectors computed for the texts before it are in the embedding cache.
C35_NoVectorsUnlessAllEmbedded ==
    /\ bupserted # <<>> =>
          /\ bpc = "returned"
          /\ Len(bupserted) = Len(btexts)
          /\ \A i \in 1..Len(btexts) : produced[i] # 0
    /\ (bvariant = "sequential" /\ bpc = "failed") =>
          /\ hpc \in {"embedding", "embedThrew"}
          /\ bupserted = <<>>
          /\ \A i \in 1..(bfailedAt - 1) :
                /\ CacheHas(embeddingCache, Truncate(btexts[i]))
                /\ embeddingCache[Truncate(btexts[i])] = produced[i]

\* the handler rethrew after the third text failed, two vectors cached
C35_Witness ==
    /\ hpc = "embedThrew" /\ bfailedAt = 3 /\ bupserted = <<>>
    /\ btexts[1] # btexts[2]
    /\ CacheHas(embeddingCache, Truncate(btexts[1]))
    /\ CacheHas(embeddingCache, Truncate(btexts[2]))


\* --------------------------------------------------------------------------
\* Claims about the enrichment, chunking and embedding stages (SpecEnrich)
\* --------------------------------------------------------------------------

\* The tickets of the batches before the batch of t have all settled.
EarlierBatchesSettled(t) ==
    \A u \in EnrichTickets : BatchOf(u) < BatchOf(t) => u \in Settled

Increasing(ts) ==
    \A j, k \in 1..Len(ts) : j < k => ts[j] < ts[k]

\* Chunk a comes before chunk b in emission order, then in chunk order.
ChunkBefore(a, b) ==
    \/ a.ticketId < b.ticketId
    \/ a.ticketId = b.ticketId /\ a.chunkIndex < b.chunkIndex

ChunksInFetchOrder ==
    /\ Increasing(qenriched)
    /\ \A j, k \in 1..Len(qallChunks) :
         j < k => ChunkBefore(qallChunks[j], qallChunks[k])
    /\ \A j, k \in 1..Len(qvectors) :
         j < k => ChunkBefore(qvectors[j].chunk, qvectors[k].chunk)

C31_SetupIdempotent ==
    cruns > 0 =>
        /\ clast.posted <=> clast.get = "404"
        /\ (cexists /\ ~clast.existed) => clast.posted
        /\ clast.get = "error" =>
             /\ ~clast.ret /\ ~clast.posted /\ clast.fieldPosts = {}
             /\ cexists = clast.existed /\ cfields = clast.before
        /\ (clast.get = "found" \/ (clast.posted /\ cexists)) =>
             /\ clast.fieldPosts = FieldKeys(ckey)
             /\ clast.ret
        /\ clast.absorbed \subseteq clast.before
        /\ clast.before \subseteq cfields
        /\ (clast.get = "found" /\ clast.before = FieldKeys(ckey)) =>
             /\ clast.ret
             /\ cexists /\ cfields = clast.before

\* C31 witness: a second run finds the schema the first run created, every
\* field-create call is answered 422, and the run returns true.
C31_Witness ==
    /\ cruns = 2
    /\ clast.get = "found"
    /\ clast.before = FieldKeys(ckey)
    /\ clast.absorbed = FieldKeys(ckey)
    /\ clast.ret
    /\ cfields = FieldKeys(ckey)

====
